---- MODULE Spec2Model ----
(***************************************************************************)
(* Querious: the scope-aware document pipeline.                            *)
(*                                                                         *)
(* The stores are the MongoDB collections documents, document_scopes,      *)
(* chunks, chats, projects and users, plus the blob store (R2/S3) and the  *)
(* Inngest event queue.  Every HTTP handler is a process that performs its *)
(* store operations one at a time; operations of different requests        *)
(* interleave freely.  One action is one store operation of a handler      *)
(* together with the local computation that follows it.                    *)
(***************************************************************************)
EXTENDS Integers, Sequences, FiniteSets, Bags, TLC

(***************************************************************************)
(* Bounds of the model.                                                    *)
(***************************************************************************)
MaxDocId == 2
MaxRequests == 3
MaxScopeRequests == 3
MaxSearchRequests == 2
MaxFaults == 1
NumChunks == 1
MaxTopK == 2
MaxIngestRequests == 4
MaxQueryRequests == 3
MaxRankChunks == 2
MaxLimiterCalls == 4
MaxTime == 2
MaxCreateRequests == 4
MaxAuthRequests == 4
MaxLiveRequests == 3
MaxAccountRequests == 1
MaxCountRequests == 3
MaxSessionRequests == 2
MaxReconcileRequests == 3

(***************************************************************************)
(* The fixed world: users, their scopes, uploaded contents.                *)
(***************************************************************************)
Procs == {1, 2}
Checksums == {"sha256:a", "sha256:b"}
Filenames == {"f.pdf"}
NoProject == "none"

InitProjects == {[id |-> "p1", user_id |-> "u1"]}
InitChats ==
  {[id |-> "c1", user_id |-> "u1", project_id |-> "p1"],
   [id |-> "c2", user_id |-> "u1", project_id |-> NoProject]}
InitUsers == {"u1"}
\* the keys handed to the login rate limiter (e-mail addresses)
Keys == {"a@x", "b@x"}
\* the scope references a client sends
ScopeRefs ==
  {[scope_type |-> "project", scope_id |-> "p1"],
   [scope_type |-> "chat", scope_id |-> "c1"],
   [scope_type |-> "chat", scope_id |-> "c2"]}

Plan(u) == IF u = "u1" THEN "pro" ELSE "free"

\* api_routes.PLAN_LIMITS; 0 stands for None (unlimited)
PLAN_LIMITS(plan) ==
  CASE plan = "free" -> [projects |-> 1, chats |-> 3, documents |-> 3,
                          docs_per_scope |-> 1, token_limit |-> 10000]
    [] plan = "pro" -> [projects |-> 10, chats |-> 0, documents |-> 30,
                        docs_per_scope |-> 5, token_limit |-> 500000]
    [] OTHER -> [projects |-> 0, chats |-> 0, documents |-> 0,
                 docs_per_scope |-> 10, token_limit |-> 2000000]

VARIABLES
  documents,               \* collection documents: rows [id, checksum, s3_key, status]
  document_scopes,         \* collection document_scopes: bag of [document_id, scope_type, scope_id]
  chunks,                  \* collection chunks: rows [id, document_id, chunk_index]
  blobs,                   \* blob store: rows [key, content]
  chats,                   \* collection chats
  projects,                \* collection projects
  active_documents_count,  \* collection users: active_documents_count of each user
  nextDocId,               \* source of fresh ids (generate_id, uuid4)
  ingest_events,           \* rag/ingest_pdf events accepted and not yet run
  rate_limited,            \* pdf_path keys that already started a run in the window
  ingest,                  \* the ingestion worker: the run in progress
  req,                     \* the HTTP requests in progress, one per process
  response,                \* the response sent last
  search,                  \* the query worker: the search in progress
  budget,                  \* requests the model still accepts
  faults,                  \* store and network failures so far
  tokens_used,             \* collection users: tokens_used of each user
  refresh_tokens,          \* collection refresh_tokens: rows [id, user_id, revoked]
  attempts,                \* RateLimiter._attempts: key -> the times recorded
  now,                     \* the clock, in minutes
  recorded                 \* history: key -> every time recorded since the last clear

vars == <<documents, document_scopes, chunks, blobs, chats, projects,
          active_documents_count, nextDocId, ingest_events, rate_limited,
          ingest, req, response, search, budget, faults,
          tokens_used, refresh_tokens, attempts, now, recorded>>

world == <<documents, document_scopes, chunks, blobs, chats, projects,
           active_documents_count, nextDocId, ingest_events, rate_limited>>

\* the state of the users' accounts and sessions and of the login limiter
accounts == <<tokens_used, refresh_tokens, attempts, now, recorded>>

NoKey == [scope_type |-> "", scope_id |-> "", filename |-> "", uid |-> 0]
NoDoc == [id |-> 0, checksum |-> "", s3_key |-> NoKey, status |-> ""]

Idle ==
  [op |-> "idle", pc |-> "idle", user |-> "", active |-> 0,
   scope_type |-> "", scope_id |-> "",
   checksum |-> "", filename |-> "", document_id |-> 0, doc |-> NoDoc, is_new |-> FALSE,
   doc_ids |-> {}, todo |-> {}, chats_todo |-> {}, success |-> TRUE, purged |-> {},
   deleted_count |-> 0, stage |-> ""]

NoResponse ==
  [op |-> "", code |-> 0, body |-> "", document_id |-> 0, is_new |-> FALSE]

\* a request takes the lowest free process slot
Free(p) ==
  /\ req[p].pc = "idle"
  /\ \A q \in Procs : q < p => req[q].pc # "idle"

\* the model accepts a bounded number of requests
Begin == budget > 0 /\ budget' = budget - 1

\* the model injects MaxFaults failures of the stores, the blob store and the
\* embedding service
Outcomes == IF faults < MaxFaults THEN BOOLEAN ELSE {FALSE}
Failed(f) == faults' = faults + (IF f THEN 1 ELSE 0)

\* fresh ids are a bounded resource of the model: an upload starts only while
\* an id is left for it
IdLeft ==
  nextDocId + Cardinality({q \in Procs : req[q].pc \in {"lookup", "s3"}}) <= MaxDocId

\* a handler returns: HTTP status and the body's status/detail
Respond(p, r, code, body) ==
  /\ req' = [req EXCEPT ![p] = Idle]
  /\ response' =
       [op |-> r.op, code |-> code, body |-> body,
        document_id |-> IF r.doc.id # 0 THEN r.doc.id ELSE r.document_id,
        is_new |-> r.is_new]

Goto(p, r, pc) ==
  /\ req' = [req EXCEPT ![p] = [r EXCEPT !.pc = pc]]
  /\ UNCHANGED response

(***************************************************************************)
(* Store primitives.                                                       *)
(***************************************************************************)
Link(d, st, sid) == [document_id |-> d, scope_type |-> st, scope_id |-> sid]

\* the links of a scope / of a document, as sets of triples
LinksOfScope(st, sid) ==
  {l \in BagToSet(document_scopes) : l.scope_type = st /\ l.scope_id = sid}
LinksOfDoc(d) == {l \in BagToSet(document_scopes) : l.document_id = d}

\* count_documents on document_scopes
CountLinks(S) ==
  LET RECURSIVE Sum(_)
      Sum(T) == IF T = {} THEN 0
                ELSE LET l == CHOOSE x \in T : TRUE
                     IN CopiesIn(l, document_scopes) + Sum(T \ {l})
  IN Sum(S)

\* document_routes 418: count_documents({"document_id": document_id})
remaining_linksMut(document_id) == 0
remaining_links(document_id) == CountLinks(LinksOfDoc(document_id))

\* delete_many on document_scopes: every row satisfying the filter goes
DeleteLinks(S) ==
  [l \in (BagToSet(document_scopes) \ S) |-> document_scopes[l]]

\* unique index idx_documents_checksum_unique
ChecksumIndexMut(cs) == FALSE
ChecksumIndex(cs) == \E d \in documents : d.checksum = cs

\* unique index idx_documents_s3_key_unique
S3KeyIndex(key) == \E d \in documents : d.s3_key = key

\* unique index idx_document_scopes_unique_link
UniqueLinkIndex(l) == BagIn(l, document_scopes)

\* db.documents.insert_one raises DuplicateKeyError
DuplicateDocument(doc) == ChecksumIndex(doc.checksum) \/ S3KeyIndex(doc.s3_key)

\* validate_scope_ownership / the ownership lookups of api_routes
OwnsScope(u, st, sid) ==
  IF st = "chat" THEN \E c \in chats : c.id = sid /\ c.user_id = u
  ELSE \E pr \in projects : pr.id = sid /\ pr.user_id = u

\* s3.put_object: the key now holds the content
PutBlob(key, content) ==
  {b \in blobs : b.key # key} \cup {[key |-> key, content |-> content]}

SearchIdle ==
  [pc |-> "idle", scope_type |-> "", scope_id |-> "", include_project |-> FALSE,
   project_id |-> "", top_k |-> 0, query |-> 0, document_ids |-> {}, results |-> <<>>,
   index_used |-> FALSE]

Start ==
  /\ documents = {}
  /\ document_scopes = EmptyBag
  /\ chunks = {}
  /\ blobs = {}
  /\ chats = InitChats
  /\ projects = InitProjects
  /\ active_documents_count = [u \in InitUsers |-> 0]
  /\ nextDocId = 1
  /\ ingest_events = {}
  /\ rate_limited = {}
  /\ ingest = [pc |-> "idle", document_id |-> 0, pdf_path |-> NoKey, text |-> ""]
  /\ req = [p \in Procs |-> Idle]
  /\ response = NoResponse
  /\ search = SearchIdle
  /\ tokens_used = [u \in InitUsers |-> 0]
  /\ refresh_tokens = {}
  /\ attempts = [k \in {} |-> <<>>]
  /\ now = 0
  /\ recorded = [k \in Keys |-> <<>>]

Init == Start /\ budget = MaxRequests /\ faults = 0

(***************************************************************************)
(* Inngest: the event rag/ingest_pdf is rate-limited per pdf_path          *)
(* (main.py, rate_limit limit=1, key event.data.pdf_path): an event whose  *)
(* key already started a run in the window is dropped.                     *)
(***************************************************************************)
SendIngestEventMut(document_id, pdf_path) ==
  /\ ingest_events' =
       ingest_events \cup {[document_id |-> document_id, pdf_path |-> pdf_path]}
  /\ rate_limited' = rate_limited \cup {pdf_path}
SendIngestEvent(document_id, pdf_path) ==
  /\ ingest_events' =
       IF pdf_path \in rate_limited THEN ingest_events
       ELSE ingest_events \cup {[document_id |-> document_id, pdf_path |-> pdf_path]}
  /\ rate_limited' = rate_limited \cup {pdf_path}

\* documents.find_one({"checksum": checksum}): the rows the filter selects
find_oneMut(checksum) == documents
find_one(checksum) == {d \in documents : d.checksum = checksum}

(***************************************************************************)
(* document_routes.upload_document                                         *)
(***************************************************************************)
\* lines 136-139: validate_scope_ownership
doc_upload_start(p) ==
  /\ Free(p)
  /\ Begin
  /\ IdLeft
  /\ \E u \in DOMAIN active_documents_count, sc \in ScopeRefs, cs \in Checksums, fn \in Filenames :
       LET st == sc.scope_type
           sid == sc.scope_id
           r == [Idle EXCEPT !.op = "doc_upload", !.user = u, !.scope_type = st,
                             !.scope_id = sid, !.checksum = cs, !.filename = fn]
       IN IF OwnsScope(u, st, sid)
          THEN Goto(p, r, "lookup")
          ELSE Respond(p, r, 404, IF st = "chat" THEN "Chat not found" ELSE "Project not found")
  /\ UNCHANGED <<world, ingest, search, accounts, faults>>

\* lines 157-164: find_one({"checksum": checksum})
doc_upload_lookup(p) ==
  /\ req[p].op = "doc_upload" /\ req[p].pc = "lookup"
  /\ IF find_one(req[p].checksum) # {}
     THEN \E d \in find_one(req[p].checksum) :
            Goto(p, [req[p] EXCEPT !.doc = d, !.is_new = FALSE], "link")
     ELSE Goto(p, req[p], "s3")
  /\ UNCHANGED <<world, ingest, search, accounts, budget, faults>>

\* lines 166-185: upload_to_s3, then the Document is built with a fresh id
doc_upload_s3(p) ==
  /\ req[p].op = "doc_upload" /\ req[p].pc = "s3"
  /\ LET key == [scope_type |-> req[p].scope_type, scope_id |-> req[p].scope_id,
                 filename |-> req[p].filename, uid |-> 0]
         doc == [id |-> nextDocId, checksum |-> req[p].checksum, s3_key |-> key,
                 status |-> "pending"]
     IN \E s3_fails \in Outcomes :
          /\ Failed(s3_fails)
          /\ IF s3_fails
             THEN /\ Respond(p, req[p], 500, "Failed to upload file")
                  /\ UNCHANGED <<blobs, nextDocId>>
             ELSE /\ blobs' = PutBlob(key, req[p].checksum)
                  /\ nextDocId' = nextDocId + 1
                  /\ Goto(p, [req[p] EXCEPT !.doc = doc], "insert")
  /\ UNCHANGED <<documents, document_scopes, chunks, chats, projects,
                 active_documents_count, ingest_events, rate_limited, ingest, search, accounts, budget>>

\* lines 187-189: insert_one, DuplicateKeyError is caught
doc_upload_insert(p) ==
  /\ req[p].op = "doc_upload" /\ req[p].pc = "insert"
  /\ IF DuplicateDocument(req[p].doc)
     THEN /\ Goto(p, req[p], "refetch")
          /\ UNCHANGED documents
     ELSE /\ documents' = documents \cup {req[p].doc}
          /\ Goto(p, [req[p] EXCEPT !.is_new = TRUE], "link")
  /\ UNCHANGED <<document_scopes, chunks, blobs, chats, projects, active_documents_count,
                 nextDocId, ingest_events, rate_limited, ingest, search, accounts, budget, faults>>

\* lines 190-198: the race branch re-reads by checksum; is_new = True either way
doc_upload_refetch(p) ==
  /\ req[p].op = "doc_upload" /\ req[p].pc = "refetch"
  /\ IF find_one(req[p].checksum) # {}
     THEN \E d \in find_one(req[p].checksum) :
            Goto(p, [req[p] EXCEPT !.doc = d, !.is_new = TRUE], "link")
     ELSE Respond(p, req[p], 500, "Failed to create document")
  /\ UNCHANGED <<world, ingest, search, accounts, budget, faults>>

\* lines 200-235: insert the scope link (DuplicateKeyError ignored), queue the
\* ingestion job for a new document, return
doc_upload_link(p) ==
  /\ req[p].op = "doc_upload" /\ req[p].pc = "link"
  /\ LET l == Link(req[p].doc.id, req[p].scope_type, req[p].scope_id)
     IN document_scopes' =
          IF UniqueLinkIndex(l) THEN document_scopes
          ELSE document_scopes (+) SetToBag({l})
  /\ IF req[p].is_new
     THEN SendIngestEvent(req[p].doc.id, req[p].doc.s3_key)
     ELSE UNCHANGED <<ingest_events, rate_limited>>
  /\ Respond(p, req[p], 200, req[p].doc.status)
  /\ UNCHANGED <<documents, chunks, blobs, chats, projects, active_documents_count,
                 nextDocId, ingest, search, accounts, budget, faults>>

(***************************************************************************)
(* api_routes.upload_document                                              *)
(***************************************************************************)
\* the $lookup/$unwind/$group aggregate of lines 545-562: one per link and
\* joined document
ScopeDocCount(st, sid) ==
  CountLinks({l \in LinksOfScope(st, sid) : \E d \in documents : d.id = l.document_id})

\* lines 514-568: ownership, plan limits on the user's counter and on the scope
api_upload_start(p) ==
  /\ Free(p)
  /\ Begin
  /\ IdLeft
  /\ \E u \in DOMAIN active_documents_count, sc \in ScopeRefs, cs \in Checksums :
       LET st == sc.scope_type
           sid == sc.scope_id
           r == [Idle EXCEPT !.op = "api_upload", !.user = u, !.scope_type = st,
                             !.scope_id = sid, !.checksum = cs,
                             !.active = active_documents_count[u]]
           limits == PLAN_LIMITS(Plan(u))
       IN IF ~OwnsScope(u, st, sid)
          THEN Respond(p, r, 404, IF st = "chat" THEN "Chat not found" ELSE "Project not found")
          ELSE IF limits.documents # 0 /\ r.active >= limits.documents
          THEN Respond(p, r, 403, "limit_reached")
          ELSE IF ScopeDocCount(st, sid) >= limits.docs_per_scope
          THEN Respond(p, r, 403, "limit_reached")
          ELSE Goto(p, r, "lookup")
  /\ UNCHANGED <<world, ingest, search, accounts, faults>>

\* lines 599-606: find_one({"checksum": checksum})
api_upload_lookup(p) ==
  /\ req[p].op = "api_upload" /\ req[p].pc = "lookup"
  /\ IF find_one(req[p].checksum) # {}
     THEN \E d \in find_one(req[p].checksum) :
            Goto(p, [req[p] EXCEPT !.doc = d], "link_existing")
     ELSE Goto(p, req[p], "s3")
  /\ UNCHANGED <<world, ingest, search, accounts, budget, faults>>

\* lines 607-625: link the existing document; DuplicateKeyError is not caught
api_upload_link_existing(p) ==
  /\ req[p].op = "api_upload" /\ req[p].pc = "link_existing"
  /\ LET l == Link(req[p].doc.id, req[p].scope_type, req[p].scope_id)
     IN IF UniqueLinkIndex(l)
        THEN /\ Respond(p, req[p], 500, "DuplicateKeyError")
             /\ UNCHANGED document_scopes
        ELSE /\ document_scopes' = document_scopes (+) SetToBag({l})
             /\ Respond(p, req[p], 200, "linked")
  /\ UNCHANGED <<documents, chunks, blobs, chats, projects, active_documents_count,
                 nextDocId, ingest_events, rate_limited, ingest, search, accounts, budget, faults>>

\* lines 627-640: file_storage.upload_file under a unique key, then the Document
api_upload_s3(p) ==
  /\ req[p].op = "api_upload" /\ req[p].pc = "s3"
  /\ LET key == [scope_type |-> req[p].scope_type, scope_id |-> req[p].scope_id,
                 filename |-> "", uid |-> nextDocId]
         doc == [id |-> nextDocId, checksum |-> req[p].checksum, s3_key |-> key,
                 status |-> "pending"]
     IN \E s3_fails \in Outcomes :
          /\ Failed(s3_fails)
          /\ IF s3_fails
             THEN /\ Respond(p, req[p], 500, "Failed to upload to S3")
                  /\ UNCHANGED <<blobs, nextDocId>>
             ELSE /\ blobs' = PutBlob(key, req[p].checksum)
                  /\ nextDocId' = nextDocId + 1
                  /\ Goto(p, [req[p] EXCEPT !.doc = doc], "insert")
  /\ UNCHANGED <<documents, document_scopes, chunks, chats, projects,
                 active_documents_count, ingest_events, rate_limited, ingest, search, accounts, budget>>

\* line 641: insert_one; DuplicateKeyError is not caught
api_upload_insert(p) ==
  /\ req[p].op = "api_upload" /\ req[p].pc = "insert"
  /\ IF DuplicateDocument(req[p].doc)
     THEN /\ Respond(p, req[p], 500, "DuplicateKeyError")
          /\ UNCHANGED documents
     ELSE /\ documents' = documents \cup {req[p].doc}
          /\ Goto(p, [req[p] EXCEPT !.is_new = TRUE], "link")
  /\ UNCHANGED <<document_scopes, chunks, blobs, chats, projects, active_documents_count,
                 nextDocId, ingest_events, rate_limited, ingest, search, accounts, budget, faults>>

\* lines 643-648: insert the scope link of the new document
api_upload_link(p) ==
  /\ req[p].op = "api_upload" /\ req[p].pc = "link"
  /\ LET l == Link(req[p].doc.id, req[p].scope_type, req[p].scope_id)
     IN IF UniqueLinkIndex(l)
        THEN /\ Respond(p, req[p], 500, "DuplicateKeyError")
             /\ UNCHANGED document_scopes
        ELSE /\ document_scopes' = document_scopes (+) SetToBag({l})
             /\ Goto(p, req[p], "count")
  /\ UNCHANGED <<documents, chunks, blobs, chats, projects, active_documents_count,
                 nextDocId, ingest_events, rate_limited, ingest, search, accounts, budget, faults>>

\* lines 650-660: $inc active_documents_count, return "uploaded"
api_upload_count(p) ==
  /\ req[p].op = "api_upload" /\ req[p].pc = "count"
  /\ active_documents_count' =
       [active_documents_count EXCEPT ![req[p].user] = @ + 1]
  /\ Respond(p, req[p], 200, "uploaded")
  /\ UNCHANGED <<documents, document_scopes, chunks, blobs, chats, projects,
                 nextDocId, ingest_events, rate_limited, ingest, search, accounts, budget, faults>>

(***************************************************************************)
(* main.rag_ingest_pdf: the Inngest function, steps load-and-chunk and     *)
(* embed-and-save.                                                         *)
(***************************************************************************)
IngestIdle == [pc |-> "idle", document_id |-> 0, pdf_path |-> NoKey, text |-> ""]

\* chunk_service.generate_chunk_id: uuid5 of "document_id:chunk_index"
generate_chunk_id(document_id, chunk_index) == <<document_id, chunk_index>>

\* chunk_service.save_chunks: one upsert by chunk id per chunk
save_chunksMut(document_id, text) ==
  chunks \cup {[id |-> <<document_id, i, Cardinality(chunks)>>, document_id |-> document_id,
                chunk_index |-> i, text |-> text] : i \in 0..(NumChunks - 1)}
save_chunks(document_id, text) ==
  LET new == {[id |-> generate_chunk_id(document_id, i), document_id |-> document_id,
               chunk_index |-> i, text |-> text] : i \in 0..(NumChunks - 1)}
  IN {c \in chunks : \A n \in new : n.id # c.id} \cup new

\* chunk_service.delete_chunks / db.chunks.delete_many({"document_id": ...})
delete_chunks(document_id) == {c \in chunks : c.document_id # document_id}

\* chunk_service.update_document_status: update_one by id, no upsert
update_document_status(document_id, status) ==
  {IF d.id = document_id THEN [d EXCEPT !.status = status] ELSE d : d \in documents}

\* main.py 133-137 and the step runner: an exception of a step is logged and
\* raised, nothing is written to the Document
step_failedMut(document_id) == update_document_status(document_id, "ready")
step_failed(document_id) == documents

\* what can end _load early: download_to_temp raises, load_and_chunk_pdf
\* raises, or it returns no chunk (ValueError, line 125)
LoadErrors == {"download", "parse", "empty"}

\* _load (main.py 107-142): download the blob, parse and chunk it
ingest_load ==
  /\ ingest.pc = "idle"
  /\ \E e \in ingest_events :
       /\ ingest_events' = ingest_events \ {e}
       /\ \E parse_fails \in Outcomes, error \in LoadErrors :
            /\ Failed(parse_fails)
            /\ IF ~parse_fails /\ \E b \in blobs : b.key = e.pdf_path
               THEN /\ \E b \in blobs :
                         /\ b.key = e.pdf_path
                         /\ ingest' = [pc |-> "save", document_id |-> e.document_id,
                                       pdf_path |-> e.pdf_path, text |-> b.content]
                    /\ UNCHANGED documents
               ELSE /\ ingest' = IngestIdle
                    /\ documents' = step_failed(e.document_id)
  /\ UNCHANGED <<document_scopes, chunks, blobs, chats, projects,
                 active_documents_count, nextDocId, rate_limited, req, response, search, accounts, budget>>

\* _embed_and_save (main.py 144-171): embed_texts, then save_chunks
ingest_save ==
  /\ ingest.pc = "save"
  /\ \E embed_fails \in Outcomes :
       /\ Failed(embed_fails)
       /\ IF ~embed_fails
          THEN /\ chunks' = save_chunks(ingest.document_id, ingest.text)
               /\ ingest' = [ingest EXCEPT !.pc = "ready"]
               /\ UNCHANGED documents
          ELSE /\ ingest' = IngestIdle
               /\ documents' = step_failed(ingest.document_id)
               /\ UNCHANGED chunks
  /\ UNCHANGED <<document_scopes, blobs, chats, projects,
                 active_documents_count, nextDocId, ingest_events, rate_limited,
                 req, response, search, accounts, budget>>

\* _embed_and_save (main.py 173-177): update_document_status(READY)
ingest_ready ==
  /\ ingest.pc = "ready"
  /\ documents' = update_document_status(ingest.document_id, "ready")
  /\ ingest' = IngestIdle
  /\ UNCHANGED <<document_scopes, chunks, blobs, chats, projects,
                 active_documents_count, nextDocId, ingest_events, rate_limited,
                 req, response, search, accounts, budget, faults>>

rag_ingest_pdf == ingest_load \/ ingest_save \/ ingest_ready

\* api_routes.send_ingest_event (687-704): POST /events/ingest sends the event
\* rag/ingest_pdf with the pdf_path and document_id of the request body
send_ingest_event(p) ==
  /\ Free(p) /\ Begin
  /\ \E document_id \in 1..MaxDocId, b \in blobs :
       /\ SendIngestEvent(document_id, b.key)
       /\ Respond(p, [Idle EXCEPT !.op = "send_ingest", !.document_id = document_id],
                  200, "event_ids")
  /\ UNCHANGED <<documents, document_scopes, chunks, blobs, chats, projects,
                 active_documents_count, nextDocId, ingest, search, accounts, faults>>

\* main.py 83-87: the rate-limit period of a key ends once its run is over
rate_limit_period ==
  /\ Begin
  /\ \E key \in rate_limited :
       /\ ingest.pdf_path # key
       /\ \A e \in ingest_events : e.pdf_path # key
       /\ rate_limited' = rate_limited \ {key}
  /\ UNCHANGED <<documents, document_scopes, chunks, blobs, chats, projects,
                 active_documents_count, nextDocId, ingest_events, ingest,
                 req, response, search, accounts, faults>>

(***************************************************************************)
(* document_routes.delete_document                                         *)
(***************************************************************************)
\* lines 384-391: find the document, validate the scope's ownership
doc_delete_start(p) ==
  /\ Free(p)
  /\ Begin
  /\ \E u \in DOMAIN active_documents_count, id \in 1..MaxDocId, sc \in ScopeRefs \cup {[scope_type |-> "", scope_id |-> ""]} :
       LET r == [Idle EXCEPT !.op = "doc_delete", !.user = u, !.document_id = id,
                             !.scope_type = sc.scope_type, !.scope_id = sc.scope_id]
       IN IF ~\E d \in documents : d.id = id
          THEN Respond(p, r, 404, "Document not found")
          ELSE \E d \in documents :
                 /\ d.id = id
                 /\ IF sc.scope_type # "" /\ ~OwnsScope(u, sc.scope_type, sc.scope_id)
                    THEN Respond(p, r, 404, IF sc.scope_type = "chat" THEN "Chat not found"
                                            ELSE "Project not found")
                    ELSE Goto(p, [r EXCEPT !.doc = d], "unlink")
  /\ UNCHANGED <<world, ingest, search, accounts, faults>>

\* lines 393-415: delete_one of the named link, or delete_many of the links to
\* the caller's scopes
doc_delete_unlinkMut(p) ==
  /\ req[p].op = "doc_delete" /\ req[p].pc = "unlink"
  /\ document_scopes' =
       IF req[p].scope_type # ""
       THEN LET l == Link(req[p].doc.id, req[p].scope_type, req[p].scope_id)
            IN IF BagIn(l, document_scopes) THEN document_scopes (-) SetToBag({l})
               ELSE document_scopes
       ELSE DeleteLinks({l \in LinksOfDoc(req[p].doc.id) :
                           OwnsScope(req[p].user, l.scope_type, l.scope_id)})
  /\ Goto(p, req[p], "count")
  /\ UNCHANGED <<documents, chunks, blobs, chats, projects, active_documents_count,
                 nextDocId, ingest_events, rate_limited, ingest, search, accounts, budget, faults>>
doc_delete_unlink(p) ==
  /\ req[p].op = "doc_delete" /\ req[p].pc = "unlink"
  /\ IF req[p].scope_type # ""
     THEN LET l == Link(req[p].doc.id, req[p].scope_type, req[p].scope_id)
          IN IF BagIn(l, document_scopes)
             THEN /\ document_scopes' = document_scopes (-) SetToBag({l})
                  /\ Goto(p, req[p], "count")
             ELSE /\ UNCHANGED document_scopes
                  /\ Respond(p, req[p], 404, "Document not linked to this scope")
     ELSE /\ document_scopes' =
               DeleteLinks({l \in LinksOfDoc(req[p].doc.id) :
                              OwnsScope(req[p].user, l.scope_type, l.scope_id)})
          /\ Goto(p, req[p], "count")
  /\ UNCHANGED <<documents, chunks, blobs, chats, projects, active_documents_count,
                 nextDocId, ingest_events, rate_limited, ingest, search, accounts, budget, faults>>

\* lines 417-420 and 446: count the remaining links
doc_delete_count(p) ==
  /\ req[p].op = "doc_delete" /\ req[p].pc = "count"
  /\ IF remaining_links(req[p].doc.id) = 0
     THEN Goto(p, req[p], "mark")
     ELSE Respond(p, req[p], 200, "unlinked")
  /\ UNCHANGED <<world, ingest, search, accounts, budget, faults>>

\* lines 421-425: status := deleting
doc_delete_mark(p) ==
  /\ req[p].op = "doc_delete" /\ req[p].pc = "mark"
  /\ documents' = update_document_status(req[p].doc.id, "deleting")
  /\ Goto(p, req[p], "chunks")
  /\ UNCHANGED <<document_scopes, chunks, blobs, chats, projects, active_documents_count,
                 nextDocId, ingest_events, rate_limited, ingest, search, accounts, budget, faults>>

\* lines 430-432 and 441-444: delete the chunks; an exception leaves the
\* document in status deleting
doc_delete_chunks(p) ==
  /\ req[p].op = "doc_delete" /\ req[p].pc = "chunks"
  /\ \E chunks_fail \in Outcomes :
       /\ Failed(chunks_fail)
       /\ IF chunks_fail
          THEN /\ UNCHANGED chunks
               /\ Respond(p, req[p], 200, "deleting")
          ELSE /\ chunks' = delete_chunks(req[p].doc.id)
               /\ Goto(p, req[p], "blob")
  /\ UNCHANGED <<documents, document_scopes, blobs, chats, projects,
                 active_documents_count, nextDocId, ingest_events, rate_limited,
                 ingest, search, accounts, budget>>

\* lines 434-435 and delete_from_s3 (107-115): errors are swallowed
doc_delete_blobMut(p) ==
  /\ req[p].op = "doc_delete" /\ req[p].pc = "blob"
  /\ \E s3_fails \in Outcomes :
       /\ Failed(s3_fails)
       /\ IF s3_fails
          THEN UNCHANGED blobs /\ Respond(p, req[p], 200, "deleting")
          ELSE /\ blobs' = {b \in blobs : b.key # req[p].doc.s3_key}
               /\ Goto(p, req[p], "row")
  /\ UNCHANGED <<documents, document_scopes, chunks, chats, projects,
                 active_documents_count, nextDocId, ingest_events, rate_limited,
                 ingest, search, accounts, budget>>
doc_delete_blob(p) ==
  /\ req[p].op = "doc_delete" /\ req[p].pc = "blob"
  /\ \E s3_fails \in Outcomes :
       /\ Failed(s3_fails)
       /\ blobs' = IF s3_fails THEN blobs ELSE {b \in blobs : b.key # req[p].doc.s3_key}
  /\ Goto(p, req[p], "row")
  /\ UNCHANGED <<documents, document_scopes, chunks, chats, projects,
                 active_documents_count, nextDocId, ingest_events, rate_limited,
                 ingest, search, accounts, budget>>

\* lines 437-440: delete the document record
doc_delete_row(p) ==
  /\ req[p].op = "doc_delete" /\ req[p].pc = "row"
  /\ documents' = {d \in documents : d.id # req[p].doc.id}
  /\ Respond(p, req[p], 200, "deleted")
  /\ UNCHANGED <<document_scopes, chunks, blobs, chats, projects, active_documents_count,
                 nextDocId, ingest_events, rate_limited, ingest, search, accounts, budget, faults>>

delete_document(p) ==
  \/ doc_delete_start(p) \/ doc_delete_unlink(p) \/ doc_delete_count(p)
  \/ doc_delete_mark(p) \/ doc_delete_chunks(p) \/ doc_delete_blob(p)
  \/ doc_delete_row(p)

(***************************************************************************)
(* document_service.safe_delete_document, called once per document by      *)
(* api_routes.delete_chat and api_routes.delete_project.                   *)
(***************************************************************************)
\* the loops run over the documents in the order find() returned them
FirstDoc(S) == CHOOSE d \in S : \A e \in S : d.id <= e.id
FirstChat(S) == CHOOSE c \in S : \A e \in S : c = "c1" \/ e # "c1"

\* vector_db.MongoDBStorage.delete_by_document_id on the default collection
\* "documents": the filter {"document_id": ...} matches no Document row, the
\* embeddings are a field of the chunk rows
delete_by_document_id(document_id) == documents

\* lines 58-72: delete the vectors, then the chunks; either may raise, which
\* is logged and clears success
safe_delete_chunks(p) ==
  /\ req[p].op \in {"chat_delete", "project_delete"} /\ req[p].pc = "sd_chunks"
  /\ LET doc == FirstDoc(req[p].todo)
     IN \E vectors_fail \in Outcomes, chunks_fail \in Outcomes :
          /\ ~(vectors_fail /\ chunks_fail)
          /\ Failed(vectors_fail \/ chunks_fail)
          /\ documents' = delete_by_document_id(doc.id)
          /\ chunks' = IF chunks_fail THEN chunks ELSE delete_chunks(doc.id)
          /\ Goto(p, [req[p] EXCEPT !.doc = doc,
                                    !.success = ~vectors_fail /\ ~chunks_fail], "sd_blob")
  /\ UNCHANGED <<document_scopes, blobs, chats, projects, active_documents_count,
                 nextDocId, ingest_events, rate_limited, ingest, search, accounts, budget>>

\* lines 74-84: delete the blob (a failure is only logged), return success; the
\* caller counts the document when success is true
safe_delete_blob(p) ==
  /\ req[p].op \in {"chat_delete", "project_delete"} /\ req[p].pc = "sd_blob"
  /\ \E s3_fails \in Outcomes :
       /\ Failed(s3_fails)
       /\ blobs' = IF s3_fails THEN blobs ELSE {b \in blobs : b.key # req[p].doc.s3_key}
  /\ LET r == req[p]
         left == r.todo \ {r.doc}
         counted == [r EXCEPT !.todo = left, !.doc = NoDoc,
                              !.deleted_count = IF r.success THEN @ + 1 ELSE @,
                              !.purged = IF r.success THEN @ \cup {r.doc.id} ELSE @]
     IN Goto(p, counted,
             IF left # {} THEN "sd_chunks"
             ELSE IF r.op = "chat_delete" THEN "rows"
             ELSE IF r.stage = "project" THEN "chats"
             ELSE "chat_links")
  /\ UNCHANGED <<documents, document_scopes, chunks, chats, projects,
                 active_documents_count, nextDocId, ingest_events, rate_limited,
                 ingest, search, accounts, budget>>

safe_delete_document(p) == safe_delete_chunks(p) \/ safe_delete_blob(p)

\* the guarded decrement of delete_chat (328-333) and delete_project (181-186)
DecrementCountMut(u, n) ==
  IF n > 0 /\ u \in DOMAIN active_documents_count
  THEN [active_documents_count EXCEPT ![u] = @ - n]
  ELSE active_documents_count
DecrementCount(u, n) ==
  IF n > 0 /\ u \in DOMAIN active_documents_count /\ active_documents_count[u] >= n
  THEN [active_documents_count EXCEPT ![u] = @ - n]
  ELSE active_documents_count

(***************************************************************************)
(* api_routes.delete_chat                                                  *)
(***************************************************************************)
\* lines 295-309: the chat of the caller, its links, the linked documents
chat_delete_start(p) ==
  /\ Free(p)
  /\ Begin
  /\ \E u \in DOMAIN active_documents_count, chat_id \in {c.id : c \in InitChats} :
       LET r == [Idle EXCEPT !.op = "chat_delete", !.user = u, !.scope_type = "chat",
                             !.scope_id = chat_id]
           doc_ids == {l.document_id : l \in LinksOfScope("chat", chat_id)}
           chat_docs == {d \in documents : d.id \in doc_ids}
       IN IF ~OwnsScope(u, "chat", chat_id)
          THEN Respond(p, r, 404, "Chat not found")
          ELSE Goto(p, [r EXCEPT !.doc_ids = doc_ids, !.todo = chat_docs],
                    IF chat_docs = {} THEN "rows" ELSE "sd_chunks")
  /\ UNCHANGED <<world, ingest, search, accounts, faults>>

\* lines 316-318: delete_many of every linked document id
chat_delete_rows(p) ==
  /\ req[p].op = "chat_delete" /\ req[p].pc = "rows"
  /\ documents' = {d \in documents : d.id \notin req[p].doc_ids}
  /\ Goto(p, req[p], "links")
  /\ UNCHANGED <<document_scopes, chunks, blobs, chats, projects, active_documents_count,
                 nextDocId, ingest_events, rate_limited, ingest, search, accounts, budget, faults>>

\* lines 320-321: delete the chat's scope links
chat_delete_links(p) ==
  /\ req[p].op = "chat_delete" /\ req[p].pc = "links"
  /\ document_scopes' = DeleteLinks(LinksOfScope("chat", req[p].scope_id))
  /\ Goto(p, req[p], "chat")
  /\ UNCHANGED <<documents, chunks, blobs, chats, projects, active_documents_count,
                 nextDocId, ingest_events, rate_limited, ingest, search, accounts, budget, faults>>

\* lines 323-325: delete the messages and the chat
chat_delete_chat(p) ==
  /\ req[p].op = "chat_delete" /\ req[p].pc = "chat"
  /\ chats' = {c \in chats : c.id # req[p].scope_id}
  /\ Goto(p, req[p], "count")
  /\ UNCHANGED <<documents, document_scopes, chunks, blobs, projects,
                 active_documents_count, nextDocId, ingest_events, rate_limited,
                 ingest, search, accounts, budget, faults>>

\* lines 327-335: decrement the counter by deleted_count
chat_delete_count(p) ==
  /\ req[p].op = "chat_delete" /\ req[p].pc = "count"
  /\ active_documents_count' = DecrementCount(req[p].user, req[p].deleted_count)
  /\ Respond(p, req[p], 200, "deleted")
  /\ UNCHANGED <<documents, document_scopes, chunks, blobs, chats, projects,
                 nextDocId, ingest_events, rate_limited, ingest, search, accounts, budget, faults>>

delete_chat(p) ==
  \/ chat_delete_start(p) \/ chat_delete_rows(p) \/ chat_delete_links(p)
  \/ chat_delete_chat(p) \/ chat_delete_count(p)

(***************************************************************************)
(* api_routes.delete_project                                               *)
(***************************************************************************)
\* lines 132-146: the project of the caller, its links, the linked documents
project_delete_start(p) ==
  /\ Free(p)
  /\ Begin
  /\ \E u \in DOMAIN active_documents_count, project_id \in {pr.id : pr \in InitProjects} :
       LET r == [Idle EXCEPT !.op = "project_delete", !.user = u,
                             !.scope_type = "project", !.scope_id = project_id,
                             !.stage = "project"]
           project_doc_ids == {l.document_id : l \in LinksOfScope("project", project_id)}
           project_docs == {d \in documents : d.id \in project_doc_ids}
       IN IF ~OwnsScope(u, "project", project_id)
          THEN Respond(p, r, 404, "Project not found")
          ELSE Goto(p, [r EXCEPT !.todo = project_docs],
                    IF project_docs = {} THEN "chats" ELSE "sd_chunks")
  /\ UNCHANGED <<world, ingest, search, accounts, faults>>

\* line 154: the chats of the project
project_delete_chats(p) ==
  /\ req[p].op = "project_delete" /\ req[p].pc = "chats"
  /\ LET ids == {c.id : c \in {c \in chats : c.project_id = req[p].scope_id}}
     IN Goto(p, [req[p] EXCEPT !.chats_todo = ids],
             IF ids = {} THEN "rows" ELSE "chat_docs")
  /\ UNCHANGED <<world, ingest, search, accounts, budget, faults>>

\* lines 156-159: the links of the next chat and the linked documents
project_delete_chat_docs(p) ==
  /\ req[p].op = "project_delete" /\ req[p].pc = "chat_docs"
  /\ LET chat_id == FirstChat(req[p].chats_todo)
         chat_doc_ids == {l.document_id : l \in LinksOfScope("chat", chat_id)}
         chat_docs == {d \in documents : d.id \in chat_doc_ids}
     IN Goto(p, [req[p] EXCEPT !.stage = chat_id, !.todo = chat_docs],
             IF chat_docs = {} THEN "chat_links" ELSE "sd_chunks")
  /\ UNCHANGED <<world, ingest, search, accounts, budget, faults>>

\* lines 166-168: delete the chat's scope links and messages
project_delete_chat_links(p) ==
  /\ req[p].op = "project_delete" /\ req[p].pc = "chat_links"
  /\ document_scopes' = DeleteLinks(LinksOfScope("chat", req[p].stage))
  /\ LET left == req[p].chats_todo \ {req[p].stage}
     IN Goto(p, [req[p] EXCEPT !.chats_todo = left],
             IF left = {} THEN "rows" ELSE "chat_docs")
  /\ UNCHANGED <<documents, chunks, blobs, chats, projects, active_documents_count,
                 nextDocId, ingest_events, rate_limited, ingest, search, accounts, budget, faults>>

\* lines 170-172: delete_many of the documents safe_delete_document reported
project_delete_rows(p) ==
  /\ req[p].op = "project_delete" /\ req[p].pc = "rows"
  /\ documents' = {d \in documents : d.id \notin req[p].purged}
  /\ Goto(p, req[p], "links")
  /\ UNCHANGED <<document_scopes, chunks, blobs, chats, projects, active_documents_count,
                 nextDocId, ingest_events, rate_limited, ingest, search, accounts, budget, faults>>

\* lines 174-175: delete the project's scope links
project_delete_links(p) ==
  /\ req[p].op = "project_delete" /\ req[p].pc = "links"
  /\ document_scopes' = DeleteLinks(LinksOfScope("project", req[p].scope_id))
  /\ Goto(p, req[p], "scopes")
  /\ UNCHANGED <<documents, chunks, blobs, chats, projects, active_documents_count,
                 nextDocId, ingest_events, rate_limited, ingest, search, accounts, budget, faults>>

\* lines 177-179: delete the project's chats and the project
project_delete_scopes(p) ==
  /\ req[p].op = "project_delete" /\ req[p].pc = "scopes"
  /\ chats' = {c \in chats : c.project_id # req[p].scope_id}
  /\ projects' = {pr \in projects : pr.id # req[p].scope_id}
  /\ Goto(p, req[p], "count")
  /\ UNCHANGED <<documents, document_scopes, chunks, blobs, active_documents_count,
                 nextDocId, ingest_events, rate_limited, ingest, search, accounts, budget, faults>>

\* lines 181-188: decrement the counter by total_deleted
project_delete_count(p) ==
  /\ req[p].op = "project_delete" /\ req[p].pc = "count"
  /\ active_documents_count' = DecrementCount(req[p].user, req[p].deleted_count)
  /\ Respond(p, req[p], 200, "deleted")
  /\ UNCHANGED <<documents, document_scopes, chunks, blobs, chats, projects,
                 nextDocId, ingest_events, rate_limited, ingest, search, accounts, budget, faults>>

delete_project(p) ==
  \/ project_delete_start(p) \/ project_delete_chats(p) \/ project_delete_chat_docs(p)
  \/ project_delete_chat_links(p) \/ project_delete_rows(p) \/ project_delete_links(p)
  \/ project_delete_scopes(p) \/ project_delete_count(p)

(***************************************************************************)
(* chunk_search: get_document_ids_for_scope, search_chunks and             *)
(* search_for_scope, run by the query worker.                              *)
(***************************************************************************)
Queries == {1}
\* the scope references a query names; "workspace" is no scope type of the code
SearchScopes == ScopeRefs \cup {[scope_type |-> "workspace", scope_id |-> "c1"]}

\* lines 51-67: the filter on document_scopes, a set of alternatives ($or);
\* an unknown scope_type has none
ScopeQueryMut(scope_type, scope_id, include_project, project_id) ==
  IF scope_type = "project"
  THEN {[scope_type |-> "project", scope_id |-> scope_id]}
  ELSE IF scope_type = "chat"
  THEN IF project_id # NoProject
       THEN {[scope_type |-> "chat", scope_id |-> scope_id],
             [scope_type |-> "project", scope_id |-> project_id]}
       ELSE {[scope_type |-> "chat", scope_id |-> scope_id]}
  ELSE {}
ScopeQuery(scope_type, scope_id, include_project, project_id) ==
  IF scope_type = "project"
  THEN {[scope_type |-> "project", scope_id |-> scope_id]}
  ELSE IF scope_type = "chat"
  THEN IF include_project /\ project_id # NoProject
       THEN {[scope_type |-> "chat", scope_id |-> scope_id],
             [scope_type |-> "project", scope_id |-> project_id]}
       ELSE {[scope_type |-> "chat", scope_id |-> scope_id]}
  ELSE {}

\* lines 71-78: find() with the filter, then list(set(document_id ...))
get_document_ids_for_scope(scope_type, scope_id, include_project, project_id) ==
  LET query == ScopeQuery(scope_type, scope_id, include_project, project_id)
      scopes == {l \in BagToSet(document_scopes) :
                   \E q \in query : l.scope_type = q.scope_type /\ l.scope_id = q.scope_id}
  IN {l.document_id : l \in scopes}

\* the similarity the vector index computes between the query vector and a
\* chunk's embedding (vectorSearchScore)
Score(query, c) == (query * c.document_id + c.chunk_index) % 3

\* line 96: the early return on an empty document_ids
NoDocumentsMut(document_ids) == FALSE
NoDocuments(document_ids) == document_ids = {}

\* lines 110-112: the $vectorSearch pre-filter
CandidatesMut(document_ids) == chunks
Candidates(document_ids) == {c \in chunks : c.document_id \in document_ids}

\* lines 102-113: $vectorSearch with limit top_k: the best-scoring candidates,
\* best first; the index orders equal scores as it likes
Ranked(S, top_k) ==
  LET n == IF Cardinality(S) < top_k THEN Cardinality(S) ELSE top_k
  IN {r \in [1..n -> S] :
        /\ \A i, j \in 1..n : i < j => r[i] # r[j] /\ Score(search.query, r[i]) >= Score(search.query, r[j])
        /\ \A c \in S : (\A i \in 1..n : r[i] # c) =>
                          \A i \in 1..n : Score(search.query, r[i]) >= Score(search.query, c)}

\* search_for_scope, lines 192-197: resolve the visible documents
search_resolve ==
  /\ search.pc = "idle"
  /\ \E sc \in SearchScopes, inc \in BOOLEAN,
        pid \in {NoProject} \cup {pr.id : pr \in InitProjects},
        k \in 1..MaxTopK, q \in Queries :
       search' = [SearchIdle EXCEPT
                    !.pc = "resolved", !.scope_type = sc.scope_type, !.scope_id = sc.scope_id,
                    !.include_project = inc, !.project_id = pid, !.top_k = k, !.query = q,
                    !.document_ids =
                      get_document_ids_for_scope(sc.scope_type, sc.scope_id, inc, pid)]
  /\ UNCHANGED <<world, ingest, req, response, accounts, budget, faults>>

\* search_chunks, lines 96-166: the aggregate on chunks, joined with documents
search_chunks ==
  /\ search.pc = "resolved"
  /\ IF NoDocuments(search.document_ids)
     THEN search' = [search EXCEPT !.pc = "done", !.results = <<>>]
     ELSE \E r \in Ranked(Candidates(search.document_ids), search.top_k) :
            search' = [search EXCEPT
                         !.pc = "done", !.index_used = TRUE,
                         !.results =
                           [i \in DOMAIN r |->
                              [document_id |-> r[i].document_id,
                               chunk_index |-> r[i].chunk_index,
                               text |-> r[i].text,
                               filename |-> IF \E d \in documents : d.id = r[i].document_id
                                            THEN "f.pdf" ELSE "Unknown",
                               score |-> Score(search.query, r[i])]]]
  /\ UNCHANGED <<world, ingest, req, response, accounts, budget, faults>>

search_for_scope == search_resolve \/ search_chunks

(***************************************************************************)
(* api_routes.stream_query: POST /chat/{chat_id}/stream                    *)
(***************************************************************************)
\* a chat of another user, and the chat ids a client sends: its own chats,
\* the other user's chat and an id of no chat
OtherChat == [id |-> "c9", user_id |-> "u2", project_id |-> NoProject]
ChatRefs == {c.id : c \in InitChats} \cup {"c9", "c0"}

\* lines 848 and main.py 286: the relevance threshold 0.3; a score s of the
\* model stands for the similarity s/4
BelowThreshold(s) == 10 * s < 3 * 4

\* the events of the stream, gathered into one response
StreamResponse(r, body, emitted, num_contexts, sources, tokens, generated) ==
  [op |-> r.op, code |-> 200, body |-> body, document_id |-> 0, is_new |-> FALSE,
   user |-> r.user, chat_id |-> r.scope_id, emitted_sources |-> emitted, num_contexts |-> num_contexts,
   sources |-> sources, tokens_used |-> tokens, generated |-> generated]

\* lines 780-830: the token limit, the chat lookup, the ownership check, then
\* search_for_scope is called for the chat and its project
stream_query_start(p) ==
  /\ Free(p) /\ Begin
  /\ search.pc = "idle"
  /\ \E u \in DOMAIN tokens_used, chat_id \in ChatRefs, k \in 1..MaxTopK, q \in Queries :
       LET r == [Idle EXCEPT !.op = "stream_query", !.user = u,
                             !.scope_type = "chat", !.scope_id = chat_id]
           found == {c \in chats : c.id = chat_id}
       IN IF tokens_used[u] >= PLAN_LIMITS(Plan(u)).token_limit
          THEN /\ req' = [req EXCEPT ![p] = Idle]
               /\ response' = StreamResponse(r, "limit_reached", <<>>, 0, <<>>, 0, FALSE)
               /\ UNCHANGED search
          ELSE IF found = {}
          THEN /\ req' = [req EXCEPT ![p] = Idle]
               /\ response' = StreamResponse(r, "Chat not found", <<>>, 0, <<>>, 0, FALSE)
               /\ UNCHANGED search
          ELSE \E chat \in found :
                 IF chat.user_id # u
                 THEN /\ req' = [req EXCEPT ![p] = Idle]
                      /\ response' = StreamResponse(r, "Access denied", <<>>, 0, <<>>, 0, FALSE)
                      /\ UNCHANGED search
                 ELSE /\ Goto(p, r, "search")
                      /\ search' = [SearchIdle EXCEPT
                                      !.pc = "resolved", !.scope_type = "chat",
                                      !.scope_id = chat_id, !.include_project = TRUE,
                                      !.project_id = chat.project_id, !.top_k = k,
                                      !.query = q,
                                      !.document_ids =
                                        get_document_ids_for_scope("chat", chat_id, TRUE,
                                                                   chat.project_id)]
  /\ UNCHANGED <<world, ingest, accounts, faults>>

\* the tokens counted for an answer (lines 923-930), one unit in the model
total_tokens == 1

\* lines 832-948: the sources event, the check of the scores, the generation
\* by the LLM, the done event and the $inc of the user's tokens_used
stream_query_answer(p) ==
  /\ req[p].op = "stream_query" /\ req[p].pc = "search"
  /\ search.pc = "done"
  /\ LET contexts == search.results
         sources == [i \in DOMAIN contexts |-> contexts[i].filename]
         n == Len(contexts)
     IN IF n = 0 \/ \A i \in 1..n : BelowThreshold(contexts[i].score)
        THEN /\ response' = StreamResponse(req[p], "no_answer", sources, n, <<>>, 0, FALSE)
             /\ UNCHANGED <<tokens_used, faults>>
        ELSE \E llm_fails \in Outcomes :
               /\ Failed(llm_fails)
               /\ IF llm_fails
                  THEN /\ response' = StreamResponse(req[p], "error", sources, n, <<>>, 0, TRUE)
                       /\ UNCHANGED tokens_used
                  ELSE /\ response' = StreamResponse(req[p], "answer", sources, n, sources,
                                                     total_tokens, TRUE)
                       /\ tokens_used' =
                            [tokens_used EXCEPT ![req[p].user] = @ + total_tokens]
  /\ req' = [req EXCEPT ![p] = Idle]
  /\ search' = SearchIdle
  /\ UNCHANGED <<world, ingest, budget, refresh_tokens, attempts, now, recorded>>

stream_query(p) == stream_query_start(p) \/ stream_query_answer(p)

(***************************************************************************)
(* auth_service.RateLimiter                                                *)
(***************************************************************************)
\* the max_attempts and window_minutes the callers pass
MaxAttempts == {1, 2}
Windows == {1, 2}

\* dict.get(key, [])
Get(dict, key) == IF key \in DOMAIN dict THEN dict[key] ELSE <<>>

\* dict[key] = value
Put(dict, key, value) ==
  [k \in DOMAIN dict \cup {key} |-> IF k = key THEN value ELSE dict[k]]

\* the call and what it returned
LimiterResponse(op, key, max_attempts, window_minutes, allowed) ==
  [op |-> op, code |-> 0, body |-> "", document_id |-> 0, is_new |-> FALSE,
   key |-> key, max_attempts |-> max_attempts, window_minutes |-> window_minutes,
   allowed |-> allowed]

\* the attempts of the list that are later than window_start
Recent(list, window_start) ==
  LET F[i \in 0..Len(list)] ==
        IF i = 0 THEN <<>>
        ELSE IF list[i] > window_start THEN Append(F[i - 1], list[i]) ELSE F[i - 1]
  IN F[Len(list)]

\* lines 214-242: the attempts of the key inside the window are stored back
\* and counted
is_allowed ==
  /\ Begin
  /\ \E key \in Keys, max_attempts \in MaxAttempts, window_minutes \in Windows :
       LET window_start == now - window_minutes
           recent == Recent(Get(attempts, key), window_start)
       IN /\ attempts' = Put(attempts, key, recent)
          /\ response' = LimiterResponse("is_allowed", key, max_attempts, window_minutes,
                                         Len(recent) < max_attempts)
  /\ UNCHANGED <<world, ingest, req, search, faults, tokens_used, refresh_tokens, now,
                 recorded>>

\* lines 244-253: append the current time to the list of the key
record_attempt ==
  /\ Begin
  /\ \E key \in Keys :
       /\ attempts' = Put(attempts, key, Append(Get(attempts, key), now))
       /\ recorded' = [recorded EXCEPT ![key] = Append(@, now)]
       /\ response' = LimiterResponse("record_attempt", key, 0, 0, TRUE)
  /\ UNCHANGED <<world, ingest, req, search, faults, tokens_used, refresh_tokens, now>>

\* lines 255-262: forget the key
clear ==
  /\ Begin
  /\ \E key \in Keys :
       /\ attempts' = [k \in DOMAIN attempts \ {key} |-> attempts[k]]
       /\ recorded' = [recorded EXCEPT ![key] = <<>>]
       /\ response' = LimiterResponse("clear", key, 0, 0, TRUE)
  /\ UNCHANGED <<world, ingest, req, search, faults, tokens_used, refresh_tokens, now>>

\* datetime.now: a minute passes
tick ==
  /\ now < MaxTime
  /\ now' = now + 1
  /\ UNCHANGED <<world, ingest, req, response, search, budget, faults, tokens_used,
                 refresh_tokens, attempts, recorded>>

RateLimiter == is_allowed \/ record_attempt \/ clear

(***************************************************************************)
(* api_routes.create_project and api_routes.create_chat                    *)
(***************************************************************************)
\* the user who creates: the other user, on the free plan
Creators == {"u2"}

\* generate_id: the ids of the rows created, in the order of their creation
NewIds == <<"n1", "n2", "n3", "n4", "n5", "n6">>
NewId ==
  NewIds[Cardinality({pr \in projects : \E i \in DOMAIN NewIds : NewIds[i] = pr.id})
         + Cardinality({c \in chats : \E i \in DOMAIN NewIds : NewIds[i] = c.id}) + 1]

\* count_documents({"user_id": user.id})
CountOf(rows, u) == Cardinality({x \in rows : x.user_id = u})

\* lines 88-98: the limit of the plan against the count of the user's projects
create_project_count(p) ==
  /\ Free(p) /\ Begin
  /\ \E u \in Creators :
       LET r == [Idle EXCEPT !.op = "create_project", !.user = u]
           limit == PLAN_LIMITS(Plan(u)).projects
       IN IF limit # 0 /\ CountOf(projects, u) >= limit
          THEN Respond(p, r, 403, "limit_reached")
          ELSE Goto(p, r, "insert")
  /\ UNCHANGED <<world, ingest, search, accounts, faults>>

\* lines 100-102: insert the project
create_project_insert(p) ==
  /\ req[p].op = "create_project" /\ req[p].pc = "insert"
  /\ projects' = projects \cup {[id |-> NewId, user_id |-> req[p].user]}
  /\ Respond(p, req[p], 200, NewId)
  /\ UNCHANGED <<documents, document_scopes, chunks, blobs, chats, active_documents_count,
                 nextDocId, ingest_events, rate_limited, ingest, search, accounts,
                 budget, faults>>

create_project(p) == create_project_count(p) \/ create_project_insert(p)

\* lines 198-208: the limit of the plan against the count of the user's chats
create_chat_count(p) ==
  /\ Free(p) /\ Begin
  /\ \E u \in Creators, project_id \in {NoProject} \cup {pr.id : pr \in InitProjects} :
       LET r == [Idle EXCEPT !.op = "create_chat", !.user = u, !.scope_id = project_id]
           limit == PLAN_LIMITS(Plan(u)).chats
       IN IF limit # 0 /\ CountOf(chats, u) >= limit
          THEN Respond(p, r, 403, "limit_reached")
          ELSE Goto(p, r, "insert")
  /\ UNCHANGED <<world, ingest, search, accounts, faults>>

\* lines 210-221: the project of the request must be the caller's; insert
create_chat_insert(p) ==
  /\ req[p].op = "create_chat" /\ req[p].pc = "insert"
  /\ IF req[p].scope_id # NoProject /\ ~OwnsScope(req[p].user, "project", req[p].scope_id)
     THEN /\ Respond(p, req[p], 404, "Project not found")
          /\ UNCHANGED chats
     ELSE /\ chats' = chats \cup {[id |-> NewId, user_id |-> req[p].user,
                                   project_id |-> req[p].scope_id]}
          /\ Respond(p, req[p], 200, NewId)
  /\ UNCHANGED <<documents, document_scopes, chunks, blobs, projects, active_documents_count,
                 nextDocId, ingest_events, rate_limited, ingest, search, accounts,
                 budget, faults>>

create_chat(p) == create_chat_count(p) \/ create_chat_insert(p)

(***************************************************************************)
(* auth_routes: the sessions of a user.  A row of refresh_tokens is        *)
(* [id, user_id, revoked, redeemed]; the raw token of a row is its id, and *)
(* redeemed is history: the refreshes that succeeded presenting the token. *)
(***************************************************************************)
\* the refresh_token cookie of a request: a token id, or 0 for no cookie
Cookies == 0..MaxAuthRequests

\* RefreshToken(user_id=...), inserted
IssueToken(tokens, u) ==
  tokens \cup {[id |-> Cardinality(tokens) + 1, user_id |-> u, revoked |-> FALSE,
                redeemed |-> 0]}

\* update_one({"id": id}, {"$set": {"revoked": True}})
Revoke(tokens, id) ==
  {IF t.id = id THEN [t EXCEPT !.revoked = TRUE] ELSE t : t \in tokens}

\* update_many({"user_id": user.id, "revoked": False}, {"$set": {"revoked": True}})
RevokeAllMut(tokens, u) ==
  {IF t.user_id = u /\ t.id = 1 THEN [t EXCEPT !.revoked = TRUE] ELSE t : t \in tokens}
RevokeAll(tokens, u) ==
  {IF t.user_id = u THEN [t EXCEPT !.revoked = TRUE] ELSE t : t \in tokens}

\* the request record of the session handlers carries the cookie
AuthRequest(op, u, token) ==
  [token |-> token] @@ [Idle EXCEPT !.op = op, !.user = u]

\* login, lines 366-392: after the credentials are accepted the oldest of ten
\* active sessions is revoked and a new refresh token is stored
login(p) ==
  /\ Free(p) /\ Begin
  /\ \E u \in InitUsers, accepted \in BOOLEAN :
       LET r == AuthRequest("login", u, 0)
           existing_tokens == {t \in refresh_tokens : t.user_id = u /\ ~t.revoked}
           oldest == CHOOSE t \in existing_tokens : \A x \in existing_tokens : t.id <= x.id
       IN IF ~accepted
          THEN /\ Respond(p, r, 401, "Invalid email or password")
               /\ UNCHANGED refresh_tokens
          ELSE /\ refresh_tokens' =
                    IssueToken(IF Cardinality(existing_tokens) >= 10
                               THEN Revoke(refresh_tokens, oldest.id)
                               ELSE refresh_tokens, u)
               /\ Respond(p, r, 200, "logged in")
  /\ UNCHANGED <<world, ingest, search, faults, tokens_used, attempts, now, recorded>>

\* refresh_tokens, lines 409-431: the cookie, the row that is not revoked,
\* its expiry
refresh_find(p) ==
  /\ Free(p) /\ Begin
  /\ \E u \in InitUsers, token \in Cookies, expired \in BOOLEAN :
       LET r == AuthRequest("refresh", u, token)
           token_doc == {t \in refresh_tokens : t.id = token /\ ~t.revoked}
       IN IF token = 0
          THEN Respond(p, r, 401, "No refresh token") /\ UNCHANGED refresh_tokens
          ELSE IF token_doc = {}
          THEN Respond(p, r, 401, "Invalid refresh token") /\ UNCHANGED refresh_tokens
          ELSE IF expired
          THEN /\ refresh_tokens' = Revoke(refresh_tokens, token)
               /\ Respond(p, r, 401, "Refresh token expired")
          ELSE Goto(p, r, "revoke") /\ UNCHANGED refresh_tokens
  /\ UNCHANGED <<world, ingest, search, faults, tokens_used, attempts, now, recorded>>

\* line 433: revoke the presented token
refresh_revoke(p) ==
  /\ req[p].op = "refresh" /\ req[p].pc = "revoke"
  /\ refresh_tokens' = Revoke(refresh_tokens, req[p].token)
  /\ Goto(p, req[p], "insert")
  /\ UNCHANGED <<world, ingest, search, budget, faults, tokens_used, attempts, now,
                 recorded>>

\* lines 435-453: store the new refresh token and set the cookies
refresh_insert(p) ==
  /\ req[p].op = "refresh" /\ req[p].pc = "insert"
  /\ refresh_tokens' =
       IssueToken({IF t.id = req[p].token THEN [t EXCEPT !.redeemed = @ + 1] ELSE t :
                     t \in refresh_tokens}, req[p].user)
  /\ Respond(p, req[p], 200, "Tokens refreshed")
  /\ UNCHANGED <<world, ingest, search, budget, faults, tokens_used, attempts, now,
                 recorded>>

refresh(p) == refresh_find(p) \/ refresh_revoke(p) \/ refresh_insert(p)

\* logout_all (472-483), reset_password (644-648) and change_password
\* (677-681): every refresh token of the user is revoked, once the reset link
\* or the current password was accepted
revoke_sessions(p) ==
  /\ Free(p) /\ Begin
  /\ \E u \in InitUsers, op \in {"logout_all", "reset_password", "change_password"},
        accepted \in BOOLEAN :
       LET r == AuthRequest(op, u, 0)
       IN IF op # "logout_all" /\ ~accepted
          THEN /\ Respond(p, r, IF op = "reset_password" THEN 400 ELSE 401, "rejected")
               /\ UNCHANGED refresh_tokens
          ELSE /\ refresh_tokens' = RevokeAll(refresh_tokens, u)
               /\ Respond(p, r, 200, "revoked")
  /\ UNCHANGED <<world, ingest, search, faults, tokens_used, attempts, now, recorded>>

\* verify_email (228-246) and google_callback (917-928): a refresh token is
\* stored for the user once the verification token or the Google account
\* was accepted
open_session(p) ==
  /\ Free(p) /\ Begin
  /\ \E u \in InitUsers, op \in {"verify_email", "google_callback"}, accepted \in BOOLEAN :
       LET r == AuthRequest(op, u, 0)
       IN IF ~accepted
          THEN /\ Respond(p, r, 400, "rejected")
               /\ UNCHANGED refresh_tokens
          ELSE /\ refresh_tokens' = IssueToken(refresh_tokens, u)
               /\ Respond(p, r, IF op = "verify_email" THEN 200 ELSE 302, "logged in")
  /\ UNCHANGED <<world, ingest, search, faults, tokens_used, attempts, now, recorded>>

(***************************************************************************)
(* auth_routes.delete_account                                              *)
(***************************************************************************)
\* the links to the chats and projects read at lines 748-756
LinksOfScopes(scopes) ==
  {l \in BagToSet(document_scopes) :
     [scope_type |-> l.scope_type, scope_id |-> l.scope_id] \in scopes}

\* lines 740-765: verify the password, read the user's chats, projects and
\* the links to them
account_delete_start(p) ==
  /\ Free(p)
  /\ Begin
  /\ \E u \in DOMAIN active_documents_count, accepted \in BOOLEAN :
       LET scopes ==
             {[scope_type |-> "chat", scope_id |-> c.id] : c \in {x \in chats : x.user_id = u}}
             \cup {[scope_type |-> "project", scope_id |-> pr.id] :
                     pr \in {x \in projects : x.user_id = u}}
           ids == {l.document_id : l \in LinksOfScopes(scopes)}
           r == [scopes |-> scopes] @@
                [Idle EXCEPT !.op = "account_delete", !.user = u, !.doc_ids = ids,
                             !.todo = ids]
       IN IF accepted THEN Goto(p, r, "chunks")
          ELSE Respond(p, r, 401, "Password is incorrect")
  /\ UNCHANGED <<world, ingest, search, accounts, faults>>

\* lines 767-769: delete_many on chunks for every document read
account_delete_chunks(p) ==
  /\ req[p].op = "account_delete" /\ req[p].pc = "chunks"
  /\ chunks' = {c \in chunks : c.document_id \notin req[p].doc_ids}
  /\ Goto(p, req[p], "links")
  /\ UNCHANGED <<documents, document_scopes, blobs, chats, projects,
                 active_documents_count, nextDocId, ingest_events, rate_limited,
                 ingest, search, accounts, budget, faults>>

\* lines 771-777: delete_many on the links to the user's scopes
account_delete_links(p) ==
  /\ req[p].op = "account_delete" /\ req[p].pc = "links"
  /\ document_scopes' = DeleteLinks(LinksOfScopes(req[p].scopes))
  /\ Goto(p, req[p], "orphans")
  /\ UNCHANGED <<documents, chunks, blobs, chats, projects, active_documents_count,
                 nextDocId, ingest_events, rate_limited, ingest, search, accounts,
                 budget, faults>>

\* lines 779-783: one pass of the loop, the row of a document without links is
\* deleted
account_delete_orphans(p) ==
  /\ req[p].op = "account_delete" /\ req[p].pc = "orphans"
  /\ IF req[p].todo = {}
     THEN /\ Goto(p, req[p], "scopes")
          /\ UNCHANGED documents
     ELSE \E doc_id \in req[p].todo :
            /\ documents' =
                 IF remaining_links(doc_id) = 0
                 THEN {d \in documents : d.id # doc_id}
                 ELSE documents
            /\ Goto(p, [req[p] EXCEPT !.todo = @ \ {doc_id}], "orphans")
  /\ UNCHANGED <<document_scopes, chunks, blobs, chats, projects,
                 active_documents_count, nextDocId, ingest_events, rate_limited,
                 ingest, search, accounts, budget, faults>>

\* lines 785-793: delete the user's chats (with their messages) and projects
account_delete_scopes(p) ==
  /\ req[p].op = "account_delete" /\ req[p].pc = "scopes"
  /\ chats' = {c \in chats : c.user_id # req[p].user}
  /\ projects' = {pr \in projects : pr.user_id # req[p].user}
  /\ Goto(p, req[p], "sessions")
  /\ UNCHANGED <<documents, document_scopes, chunks, blobs, active_documents_count,
                 nextDocId, ingest_events, rate_limited, ingest, search, accounts,
                 budget, faults>>

\* lines 795-821: delete the refresh tokens, mark the user deleted, return
account_delete_sessions(p) ==
  /\ req[p].op = "account_delete" /\ req[p].pc = "sessions"
  /\ refresh_tokens' = {t \in refresh_tokens : t.user_id # req[p].user}
  /\ Respond(p, req[p], 200, "Account and all data deleted successfully")
  /\ UNCHANGED <<world, ingest, search, tokens_used, attempts, now, recorded,
                 budget, faults>>

delete_account(p) ==
  \/ account_delete_start(p) \/ account_delete_chunks(p) \/ account_delete_links(p)
  \/ account_delete_orphans(p) \/ account_delete_scopes(p)
  \/ account_delete_sessions(p)

(***************************************************************************)
(* scripts/orphan_cleanup.reconcile_document_counts                        *)
(***************************************************************************)
\* line 145: documents.count_documents({"user_id": user_id}); a filter on a
\* field the rows do not have selects no row
count_documents_by_user(user_id) ==
  Cardinality({d \in documents : "user_id" \in DOMAIN d /\ d.user_id = user_id})

\* lines 135-158: every user whose recorded count differs from the count is
\* set to the count, or only reported in dry-run mode
reconcile_document_counts ==
  /\ Begin
  /\ \E dry_run \in BOOLEAN :
       /\ active_documents_count' =
            [u \in DOMAIN active_documents_count |->
               IF active_documents_count[u] # count_documents_by_user(u) /\ ~dry_run
               THEN count_documents_by_user(u)
               ELSE active_documents_count[u]]
       /\ response' = [NoResponse EXCEPT !.op = "reconcile",
                                         !.body = IF dry_run THEN "dry-run" ELSE "live"]
  /\ UNCHANGED <<documents, document_scopes, chunks, blobs, chats, projects, nextDocId,
                 ingest_events, rate_limited, ingest, req, search, accounts, faults>>

Upload(p) ==
  \/ doc_upload_start(p) \/ doc_upload_lookup(p) \/ doc_upload_s3(p)
  \/ doc_upload_insert(p) \/ doc_upload_refetch(p) \/ doc_upload_link(p)
  \/ api_upload_start(p) \/ api_upload_lookup(p) \/ api_upload_link_existing(p)
  \/ api_upload_s3(p) \/ api_upload_insert(p) \/ api_upload_link(p)
  \/ api_upload_count(p)

(***************************************************************************)
(* Spec: the upload and single-document handlers served concurrently.      *)
(* SpecScopes: every handler, requests served one at a time, with the      *)
(* ingestion worker running beside them.                                   *)
(***************************************************************************)
Next == \E p \in Procs : Upload(p) \/ delete_document(p)

Spec == Init /\ [][Next]_vars

Sequential == {1}

NextScopes ==
  \/ \E p \in Sequential :
       \/ Upload(p) \/ delete_document(p)
       \/ delete_chat(p) \/ delete_project(p) \/ safe_delete_document(p)
  \/ rag_ingest_pdf

InitScopes == Start /\ budget = MaxScopeRequests /\ faults = 0

SpecScopes == InitScopes /\ [][NextScopes]_vars

\* SpecSearch: one query beside uploads, deletions and ingestion.
NextSearch ==
  \/ \E p \in Sequential : Upload(p) \/ delete_document(p)
  \/ rag_ingest_pdf
  \/ search_for_scope

\* the query is explored over the worlds built without injected failures
InitSearch == Start /\ budget = MaxSearchRequests /\ faults = MaxFaults

SpecSearch == InitSearch /\ [][NextSearch]_vars

\* SpecIngest: uploads and ingestion requests served one at a time beside the
\* ingestion worker and the rate-limit periods.
NextIngest ==
  \/ \E p \in Sequential : Upload(p) \/ send_ingest_event(p)
  \/ rate_limit_period
  \/ rag_ingest_pdf

InitIngest == Start /\ budget = MaxIngestRequests /\ faults = 0

SpecIngest == InitIngest /\ [][NextIngest]_vars

\* SpecQuery: uploads, ingestion and streamed queries, in a world that also
\* holds a chat of another user.
NextQuery ==
  \/ \E p \in Sequential : Upload(p) \/ stream_query(p)
  \/ search_chunks
  \/ rag_ingest_pdf

InitQuery ==
  /\ documents = {} /\ document_scopes = EmptyBag /\ chunks = {} /\ blobs = {}
  /\ chats = InitChats \cup {OtherChat}
  /\ projects = InitProjects
  /\ active_documents_count = [u \in InitUsers |-> 0]
  /\ nextDocId = 1 /\ ingest_events = {} /\ rate_limited = {}
  /\ ingest = IngestIdle
  /\ req = [p \in Procs |-> Idle]
  /\ response = NoResponse
  /\ search = SearchIdle
  /\ tokens_used = [u \in InitUsers |-> 0]
  /\ refresh_tokens = {} /\ attempts = [k \in {} |-> <<>>] /\ now = 0
  /\ recorded = [k \in Keys |-> <<>>]
  /\ budget = MaxQueryRequests /\ faults = 0

SpecQuery == InitQuery /\ [][NextQuery]_vars

\* SpecLimiter: calls of one RateLimiter while time passes.
InitLimiter == Start /\ budget = MaxLimiterCalls /\ faults = 0

SpecLimiter == InitLimiter /\ [][RateLimiter \/ tick]_vars

\* SpecCreate: projects and chats created by concurrent requests.
NextCreate == \E p \in Procs : create_project(p) \/ create_chat(p)

InitCreate == Start /\ budget = MaxCreateRequests /\ faults = 0

SpecCreate == InitCreate /\ [][NextCreate]_vars

\* SpecAuth: logins, refreshes and session revocations served concurrently.
NextAuth == \E p \in Procs : login(p) \/ refresh(p) \/ revoke_sessions(p)

InitAuth == Start /\ budget = MaxAuthRequests /\ faults = 0

SpecAuth == InitAuth /\ [][NextAuth]_vars

\* SpecRank: search_for_scope over stores that hold two ingested documents of
\* chat c2, each with up to MaxRankChunks chunks.
RankDoc(id) ==
  [id |-> id, checksum |-> IF id = 1 THEN "sha256:a" ELSE "sha256:b",
   s3_key |-> [scope_type |-> "chat", scope_id |-> "c2", filename |-> "", uid |-> id],
   status |-> "ready"]

RankChunks(id, n) ==
  {[id |-> generate_chunk_id(id, i), document_id |-> id, chunk_index |-> i,
    text |-> RankDoc(id).checksum] : i \in 0..(n - 1)}

InitRank ==
  /\ documents = {RankDoc(1), RankDoc(2)}
  /\ document_scopes = SetToBag({Link(1, "chat", "c2"), Link(2, "chat", "c2")})
  /\ \E n1, n2 \in 0..MaxRankChunks : chunks = RankChunks(1, n1) \cup RankChunks(2, n2)
  /\ blobs = {[key |-> RankDoc(id).s3_key, content |-> RankDoc(id).checksum] : id \in {1, 2}}
  /\ chats = InitChats /\ projects = InitProjects
  /\ active_documents_count = [u \in InitUsers |-> 2]
  /\ nextDocId = 3 /\ ingest_events = {} /\ rate_limited = {}
  /\ ingest = IngestIdle
  /\ req = [p \in Procs |-> Idle]
  /\ response = NoResponse
  /\ search = SearchIdle
  /\ tokens_used = [u \in InitUsers |-> 0]
  /\ refresh_tokens = {} /\ attempts = [k \in {} |-> <<>>] /\ now = 0
  /\ recorded = [k \in Keys |-> <<>>]
  /\ budget = 0 /\ faults = 0

SpecRank == InitRank /\ [][search_for_scope]_vars

\* SpecLive: document_routes' upload and delete served one at a time beside
\* the ingestion worker and the rate-limit periods; no store, blob or
\* embedding call fails. A request that was accepted runs to its end, and the
\* worker runs every event that Inngest accepted.
doc_upload(p) ==
  \/ doc_upload_start(p) \/ doc_upload_lookup(p) \/ doc_upload_s3(p)
  \/ doc_upload_insert(p) \/ doc_upload_refetch(p) \/ doc_upload_link(p)

InProgress(p) == req[p].pc # "idle" /\ (doc_upload(p) \/ delete_document(p))

NextLive ==
  \/ \E p \in Sequential : doc_upload(p) \/ delete_document(p)
  \/ rate_limit_period
  \/ rag_ingest_pdf

InitLive == Start /\ budget = MaxLiveRequests /\ faults = MaxFaults

SpecLive ==
  /\ InitLive /\ [][NextLive]_vars
  /\ WF_vars(rag_ingest_pdf)
  /\ \A p \in Sequential : WF_vars(InProgress(p))

\* SpecAccount: delete_account over stores that hold two ingested documents,
\* each linked to some of the scopes of u1 and of the chat of another user.
AccountScopes == ScopeRefs \cup {[scope_type |-> "chat", scope_id |-> OtherChat.id]}

LinksTo(id, scopes) == {Link(id, sc.scope_type, sc.scope_id) : sc \in scopes}

InitAccount ==
  /\ documents = {RankDoc(1), RankDoc(2)}
  /\ chats = InitChats \cup {OtherChat} /\ projects = InitProjects
  /\ \E s1, s2 \in SUBSET AccountScopes \ {{}} :
       /\ document_scopes = SetToBag(LinksTo(1, s1) \cup LinksTo(2, s2))
       /\ active_documents_count =
            [u \in InitUsers |->
               Cardinality({i \in {1, 2} :
                  \E sc \in (IF i = 1 THEN s1 ELSE s2) : OwnsScope(u, sc.scope_type, sc.scope_id)})]
  /\ chunks = RankChunks(1, NumChunks) \cup RankChunks(2, NumChunks)
  /\ blobs = {[key |-> RankDoc(id).s3_key, content |-> RankDoc(id).checksum] : id \in {1, 2}}
  /\ nextDocId = 3 /\ ingest_events = {} /\ rate_limited = {}
  /\ ingest = IngestIdle
  /\ req = [p \in Procs |-> Idle]
  /\ response = NoResponse
  /\ search = SearchIdle
  /\ tokens_used = [u \in InitUsers |-> 0]
  /\ refresh_tokens = IssueToken({}, "u1")
  /\ attempts = [k \in {} |-> <<>>] /\ now = 0
  /\ recorded = [k \in Keys |-> <<>>]
  /\ budget = MaxAccountRequests /\ faults = 0

SpecAccount == InitAccount /\ [][\E p \in Sequential : delete_account(p)]_vars

\* SpecCount: api_routes' upload, delete_chat and delete_project served
\* concurrently, without injected failures.
api_upload(p) ==
  \/ api_upload_start(p) \/ api_upload_lookup(p) \/ api_upload_link_existing(p)
  \/ api_upload_s3(p) \/ api_upload_insert(p) \/ api_upload_link(p)
  \/ api_upload_count(p)

NextCount ==
  \E p \in Procs :
    \/ api_upload(p)
    \/ delete_chat(p) \/ delete_project(p) \/ safe_delete_document(p)

InitCount == Start /\ budget = MaxCountRequests /\ faults = MaxFaults

SpecCount == InitCount /\ [][NextCount]_vars

\* SpecSessions: the handlers that open a session, for a user who has logged
\* in up to SessionLimit times before.
SessionLimit == 10

ActiveSessions(u) == {t \in refresh_tokens : t.user_id = u /\ ~t.revoked}

NextSessions == \E p \in Procs : login(p) \/ refresh(p) \/ open_session(p)

InitSessions ==
  /\ documents = {} /\ document_scopes = EmptyBag /\ chunks = {} /\ blobs = {}
  /\ chats = InitChats /\ projects = InitProjects
  /\ active_documents_count = [u \in InitUsers |-> 0]
  /\ nextDocId = 1 /\ ingest_events = {} /\ rate_limited = {}
  /\ ingest = IngestIdle
  /\ req = [p \in Procs |-> Idle]
  /\ response = NoResponse
  /\ search = SearchIdle
  /\ tokens_used = [u \in InitUsers |-> 0]
  /\ \E n \in 0..SessionLimit :
       refresh_tokens = {[id |-> i, user_id |-> "u1", revoked |-> FALSE, redeemed |-> 0] :
                           i \in 1..n}
  /\ attempts = [k \in {} |-> <<>>] /\ now = 0
  /\ recorded = [k \in Keys |-> <<>>]
  /\ budget = MaxSessionRequests /\ faults = 0

SpecSessions == InitSessions /\ [][NextSessions]_vars

\* SpecReconcile: the reconciliation script run beside uploads that are served
\* one at a time, without injected failures.
NextReconcile ==
  \/ \E p \in Sequential : Upload(p)
  \/ reconcile_document_counts

InitReconcile == Start /\ budget = MaxReconcileRequests /\ faults = MaxFaults

SpecReconcile == InitReconcile /\ [][NextReconcile]_vars


(***************************************************************************)
(* Properties                                                              *)
(***************************************************************************)
UploadOps == {"doc_upload", "api_upload"}
DeleteOps == {"doc_delete", "chat_delete", "project_delete"}

\* the request of process p takes a step
Steps(p) == req[p].pc # "idle" /\ req'[p] # req[p]

\* the request of process p returns with this step
Returns(p) == req[p].pc # "idle" /\ req'[p].pc = "idle"

\* C1: in every reachable state, whatever the interleaving of uploads and
\* deletions, no two Document rows have the same checksum.
C1_UniqueChecksum ==
  \A d1, d2 \in documents : d1.checksum = d2.checksum => d1.id = d2.id

\* C1: a second writer reached insert_one with content whose row already
\* exists and the index refused it
C1_Witness ==
  \E p \in Procs :
    /\ req[p].op = "doc_upload" /\ req[p].pc = "refetch"
    /\ \E d \in documents : d.checksum = req[p].checksum /\ d.id # req[p].doc.id

\* C2: an upload that found no Document at lookup time and then loses the
\* insert race to a concurrent upload of the same content does not return an
\* error; one row with that checksum exists, and when the upload returns its
\* link references that row.
C2_RaceLoserSucceeds ==
  [][\A p \in Procs :
       /\ (/\ req[p].op \in UploadOps /\ req[p].pc = "insert" /\ Steps(p)
           /\ \E d \in documents : d.checksum = req[p].checksum)
          => /\ ~(Returns(p) /\ response'.code # 200)
             /\ Cardinality({d \in documents' : d.checksum = req[p].checksum}) = 1
       /\ (req[p].op \in UploadOps /\ Returns(p) /\ response'.code = 200)
          => \E d \in documents' :
               /\ d.checksum = req[p].checksum
               /\ BagIn([document_id |-> d.id, scope_type |-> req[p].scope_type,
                         scope_id |-> req[p].scope_id], document_scopes')]_vars

\* C4: an upload that reaches the link insert for a triple that is already
\* linked returns success and leaves one link for the triple; no state has
\* two links with the same triple.
C4_RelinkSucceeds ==
  [][/\ \A p \in Procs :
          (/\ req[p].op \in UploadOps /\ req[p].pc \in {"link", "link_existing"} /\ Steps(p)
           /\ BagIn([document_id |-> req[p].doc.id, scope_type |-> req[p].scope_type,
                     scope_id |-> req[p].scope_id], document_scopes))
          => /\ Returns(p) /\ response'.code = 200
             /\ CopiesIn([document_id |-> req[p].doc.id, scope_type |-> req[p].scope_type,
                          scope_id |-> req[p].scope_id], document_scopes') = 1
     /\ \A l \in BagToSet(document_scopes') : CopiesIn(l, document_scopes') = 1]_vars


\* the link rows of a document in a link collection
LinkRows(B, id) == {l \in BagToSet(B) : l.document_id = id}

\* C3: an upload of content that another scope already holds, made after the
\* first upload returned, leaves one Document row for the checksum and adds
\* one link for its scope to the links the Document had, each present once:
\* after two such uploads to two scopes, one Document and two links.
C3_OneDocumentTwoLinks ==
  [][\A p \in Procs :
       (req[p].op \in UploadOps /\ Returns(p) /\ response'.code = 200)
       => LET cs == req[p].checksum
              id == response'.document_id
              l == [document_id |-> id, scope_type |-> req[p].scope_type,
                    scope_id |-> req[p].scope_id]
          IN /\ {d.id : d \in {d \in documents' : d.checksum = cs}} = {id}
             /\ LinkRows(document_scopes', id) = LinkRows(document_scopes, id) \cup {l}
             /\ \A k \in LinkRows(document_scopes', id) : CopiesIn(k, document_scopes') = 1]_vars

\* C3: the second upload has returned: one Document, linked to two scopes
C3_Witness ==
  /\ response.op \in UploadOps /\ response.code = 200
  /\ \A p \in Procs : req[p].pc = "idle"
  /\ \E d \in documents :
       /\ d.id = response.document_id
       /\ Cardinality({e \in documents : e.checksum = d.checksum}) = 1
       /\ Cardinality(LinkRows(document_scopes, d.id)) = 2
       /\ \A k \in LinkRows(document_scopes, d.id) : CopiesIn(k, document_scopes) = 1

\* C5: get_document_ids_for_scope returns, for a project, the documents
\* linked to (project, scope_id); for a chat without inheritance or without a
\* parent project id, the documents linked to (chat, scope_id); for a chat
\* with inheritance and a parent project id, the union of the two, without
\* duplicates.
C5_VisibleDocuments ==
  [][(search.pc = "idle" /\ search'.pc = "resolved")
     => LET q == search'
            linked(st, sid) ==
              {id \in 1..MaxDocId :
                 CopiesIn([document_id |-> id, scope_type |-> st, scope_id |-> sid],
                          document_scopes) > 0}
        IN /\ (q.scope_type = "project")
              => q.document_ids = linked("project", q.scope_id)
           /\ (q.scope_type = "chat" /\ (~q.include_project \/ q.project_id = NoProject))
              => q.document_ids = linked("chat", q.scope_id)
           /\ (q.scope_type = "chat" /\ q.include_project /\ q.project_id # NoProject)
              => q.document_ids = linked("chat", q.scope_id) \cup linked("project", q.project_id)]_vars

\* C5: A is linked only to the project, B only to the chat, and the chat is
\* resolved with inheritance: both are visible
C5_Witness ==
  /\ search.pc = "resolved" /\ search.scope_type = "chat" /\ search.include_project
  /\ search.project_id # NoProject
  /\ \E a, b \in search.document_ids :
       /\ a # b
       /\ LinkRows(document_scopes, a) =
            {[document_id |-> a, scope_type |-> "project", scope_id |-> search.project_id]}
       /\ LinkRows(document_scopes, b) =
            {[document_id |-> b, scope_type |-> "chat", scope_id |-> search.scope_id]}

\* C6: every passage search_for_scope returns comes from a chunk of a document
\* in the resolved visible set, and at most top_k passages are returned.
C6_OnlyVisibleChunks ==
  search.pc = "done"
  => /\ Len(search.results) <= search.top_k
     /\ \A i \in DOMAIN search.results : search.results[i].document_id \in search.document_ids

\* C6: passages were returned while the store held a chunk of a document
\* outside the visible set
C6_Witness ==
  /\ search.pc = "done" /\ search.results # <<>>
  /\ \E c \in chunks : c.document_id \notin search.document_ids

\* C7: with an empty visible set the search returns no contexts, no sources
\* and no scores, as a normal result, and the vector index is not invoked.
C7_EmptyWithoutIndex ==
  (search.pc = "done" /\ search.document_ids = {})
  => search.results = <<>> /\ ~search.index_used

\* C7: a search over no visible document has returned while chunks exist
C7_Witness ==
  search.pc = "done" /\ search.document_ids = {} /\ chunks # {}

\* C8: deleting a document from one scope removes that link only; while
\* another link remains the outcome is 'unlinked' and the Document row (its
\* status included) and its chunks stay; with no link left the document is
\* purged, chunks first, then the row, with outcome 'deleted', and no chunk
\* of a document that was ready is left.
C8_UnlinkThenPurge ==
  [][\A p \in Procs :
       (req[p].op = "doc_delete" /\ Steps(p))
       => LET r == req[p]
              id == r.doc.id
              l == [document_id |-> id, scope_type |-> r.scope_type, scope_id |-> r.scope_id]
          IN /\ (r.pc = "unlink" /\ r.scope_type # "")
                => /\ documents' = documents /\ chunks' = chunks
                   /\ \A k \in BagToSet(document_scopes) :
                        k # l => CopiesIn(k, document_scopes') = CopiesIn(k, document_scopes)
                   /\ Returns(p) \/ CopiesIn(l, document_scopes') = CopiesIn(l, document_scopes) - 1
             /\ (r.pc = "count" /\ LinkRows(document_scopes, id) # {})
                => /\ Returns(p) /\ response'.code = 200 /\ response'.body = "unlinked"
                   /\ documents' = documents /\ chunks' = chunks
                   /\ document_scopes' = document_scopes
             /\ (r.pc = "count" /\ LinkRows(document_scopes, id) = {})
                => ~Returns(p)
             /\ (r.pc \in {"mark", "chunks", "blob"} /\ \E d \in documents : d.id = id)
                => \E d \in documents' : d.id = id
             /\ (r.pc = "chunks" /\ faults' = faults)
                => ~Returns(p) /\ ~\E c \in chunks' : c.document_id = id
             /\ (r.pc = "row")
                => /\ Returns(p) /\ response'.code = 200 /\ response'.body = "deleted"
                   /\ ~\E d \in documents' : d.id = id
                   /\ r.doc.status = "ready" => ~\E c \in chunks' : c.document_id = id]_vars

\* C8: a ready document with chunks was deleted from one of its two scopes:
\* outcome 'unlinked', the row, its status and its chunks are still there
C8_Witness ==
  /\ response.op = "doc_delete" /\ response.code = 200 /\ response.body = "unlinked"
  /\ \A p \in Procs : req[p].pc = "idle"
  /\ \E d \in documents :
       /\ d.id = response.document_id /\ d.status = "ready"
       /\ \E c \in chunks : c.document_id = d.id
       /\ Cardinality(LinkRows(document_scopes, d.id)) = 1

\* the scopes a chat or project deletion removes
DeletedScopes(r) ==
  IF r.op = "chat_delete"
  THEN {[scope_type |-> "chat", scope_id |-> r.scope_id]}
  ELSE {[scope_type |-> "project", scope_id |-> r.scope_id]}
       \cup {[scope_type |-> "chat", scope_id |-> c.id] : c \in {c \in InitChats : c.project_id = r.scope_id}}

\* C9: a chat or project deletion does not purge a document that still has a
\* link to a scope outside the deletion: its Document row and its chunks
\* remain.
C9_SharedDocumentSurvives ==
  [][\A p \in Procs :
       (req[p].op \in {"chat_delete", "project_delete"} /\ Steps(p))
       => \A d \in documents :
            (\E l \in LinkRows(document_scopes, d.id) :
               [scope_type |-> l.scope_type, scope_id |-> l.scope_id] \notin DeletedScopes(req[p]))
            => /\ \E e \in documents' : e.id = d.id
               /\ \A c \in chunks : c.document_id = d.id => c \in chunks']_vars

\* the documents a deletion in flight is working on
Targets(r) == ({r.doc.id} \cup r.doc_ids \cup r.purged \cup {d.id : d \in r.todo}) \ {0}

\* C10: at any point during a deletion (single document, chat or project),
\* the Document row of a document the deletion works on is present while
\* chunks with its document_id exist: the row goes last.
C10_RowGoesLast ==
  \A p \in Procs :
    req[p].op \in DeleteOps
    => \A c \in chunks :
         c.document_id \in Targets(req[p]) => \E d \in documents : d.id = c.document_id


\* no request is in flight
Quiescent == \A p \in Procs : req[p].pc = "idle"

\* C11: after any sequence of uploads, single-document deletions and chat or
\* project deletions has completed, every ScopeLink's document_id refers to an
\* existing Document row.
C11_NoDanglingLink ==
  Quiescent
  => \A l \in BagToSet(document_scopes) : \E d \in documents : d.id = l.document_id

\* C12: without any store failure, once ingestion and the deletion have both
\* finished, every chunk's document_id refers to an existing Document row.
C12_NoChunkOutlivesDocument ==
  (Quiescent /\ ingest.pc = "idle" /\ ingest_events = {} /\ faults = 0)
  => \A c \in chunks : \E d \in documents : d.id = c.document_id


\* C13: when the deletion of a document's chunks or embeddings fails, in
\* single-document deletion and in chat or project deletion, the Document row
\* is not removed but left in status deleting, the outcome is not 'deleted'
\* and the document is not counted as purged.
C13_FailedPurgeKeepsRow ==
  [][\A p \in Procs :
       Steps(p)
       => LET r == req[p]
          IN /\ (r.op = "doc_delete" /\ r.pc = "chunks" /\ faults' > faults)
                => /\ Returns(p) /\ response'.body # "deleted"
                   /\ \E d \in documents' : d.id = r.doc.id /\ d.status = "deleting"
                   /\ active_documents_count' = active_documents_count
             /\ (r.op \in {"chat_delete", "project_delete"} /\ r.pc = "sd_blob" /\ ~r.success)
                => /\ r.doc.id \notin req'[p].purged
                   /\ req'[p].deleted_count = r.deleted_count
             /\ (r.op = "chat_delete" /\ r.pc = "rows")
                => \A d \in documents :
                     d.id \in (r.doc_ids \ r.purged)
                     => \E e \in documents' : e.id = d.id /\ e.status = "deleting"]_vars


\* C14: a chat or project deletion lowers the owner's active_documents_count
\* by the number of distinct documents it purged, each counted once (stated
\* for a counter that is at least that number).
C14_CounterMatchesPurged ==
  [][\A p \in Procs :
       (req[p].op \in {"chat_delete", "project_delete"} /\ Returns(p) /\ response'.code = 200)
       => LET u == req[p].user
              n == Cardinality(req[p].purged)
          IN active_documents_count[u] >= n
             => active_documents_count'[u] = active_documents_count[u] - n]_vars

\* C15: a single-document deletion that purges the document (outcome
\* 'deleted') lowers the user's active_documents_count by 1 (stated for a
\* counter that is at least 1); one that only unlinks leaves it unchanged.
C15_CounterOnSingleDelete ==
  [][\A p \in Procs :
       (req[p].op = "doc_delete" /\ Returns(p) /\ response'.code = 200)
       => LET u == req[p].user
          IN /\ (response'.body = "deleted" /\ active_documents_count[u] >= 1)
                => active_documents_count'[u] = active_documents_count[u] - 1
             /\ response'.body = "unlinked"
                => active_documents_count' = active_documents_count]_vars

\* the chunk rows stored for a document
ChunksOf(C, document_id) == {c \in C : c.document_id = document_id}

C17_ReadyAfterChunks ==
  [][(ingest.pc = "ready" /\ ingest'.pc = "idle")
     => \A d \in documents' :
          (d.id = ingest.document_id /\ d.status = "ready")
          => /\ Cardinality(ChunksOf(chunks', d.id)) = NumChunks
             /\ {c.chunk_index : c \in ChunksOf(chunks', d.id)} = 0..(NumChunks - 1)]_vars

\* a step of the ingestion that ends the run without reaching save_chunks:
\* the event is consumed by a failing _load, or embed_texts fails
RunFails ==
  /\ ingest'.pc = "idle"
  /\ \/ ingest.pc = "idle" /\ ingest_events' # ingest_events /\ ingest_events' \subseteq ingest_events
     \/ ingest.pc = "save"

\* C18: a run whose blob fetch, parsing (an empty extraction included) or
\* embedding fails writes nothing: the Document keeps its status (a pending
\* one stays pending), no chunk is stored, and a status only becomes ready in
\* the last step of a run that saved its chunks.
C18_FailedRunStaysPending ==
  [][/\ RunFails => (documents' = documents /\ chunks' = chunks)
     /\ (ingest.pc = "idle" /\ ingest'.pc = "save") => (documents' = documents /\ chunks' = chunks)
     /\ \A d \in documents' :
          (d.status = "ready" /\ \E e \in documents : e.id = d.id /\ e.status # "ready")
          => ingest.pc = "ready"]_vars

\* the only run of the only document has failed: the document is pending and
\* has no chunk
C18_Witness ==
  /\ nextDocId = 2 /\ faults > 0 /\ ingest.pc = "idle" /\ ingest_events = {}
  /\ chunks = {}
  /\ \E d \in documents : d.id = 1 /\ d.status = "pending" /\ d.s3_key \in rate_limited

C20_TriggerOnlyByCreator ==
  [][\A p \in Procs :
       (req[p].op = "doc_upload" /\ Steps(p)) =>
         /\ (req[p].pc = "insert" /\ req'[p].pc = "link") => req'[p].is_new
         /\ (req[p].pc \in {"lookup", "refetch"} /\ req'[p].pc = "link") => ~req'[p].is_new
         /\ (req[p].pc = "link" /\ Returns(p)) =>
              /\ response'.is_new = req[p].is_new
              /\ IF req[p].is_new
                 THEN /\ req[p].doc.s3_key \in rate_limited'
                      /\ req[p].doc.s3_key \notin rate_limited
                          => \E e \in ingest_events' : e.document_id = req[p].doc.id
                 ELSE ingest_events' = ingest_events /\ rate_limited' = rate_limited]_vars

\* C21: a single-document deletion that returns 200 answers with exactly one
\* of three outcomes: unlinked iff a ScopeLink to the document remains;
\* deleted iff no link remains and neither a chunk nor the Document row of the
\* document exists; deleting iff no link remains and the Document row still
\* exists, in status deleting.
C21_DeleteOutcome ==
  [][\A p \in Procs :
       (req[p].op = "doc_delete" /\ Returns(p) /\ response'.code = 200)
       => LET id == req[p].doc.id
              linked == LinkRows(document_scopes', id) # {}
              row == {d \in documents' : d.id = id}
          IN /\ response'.body \in {"unlinked", "deleted", "deleting"}
             /\ response'.body = "unlinked" <=> linked
             /\ response'.body = "deleted"
                <=> (~linked /\ row = {} /\ ChunksOf(chunks', id) = {})
             /\ response'.body = "deleting"
                <=> (~linked /\ row # {} /\ \A d \in row : d.status = "deleting")]_vars

\* a request that is answered in the step that accepts it
AnswersAtOnce(op) ==
  budget' = budget - 1 /\ req' = req /\ response'.op = op

\* C22: a request on a chat that the caller does not own is answered in the
\* same way whether the chat belongs to another user or does not exist: with
\* the detail of the missing chat, and without a change of any store.
C22_NotFoundIndistinguishable ==
  [][(/\ AnswersAtOnce("stream_query")
      /\ tokens_used[response'.user] < PLAN_LIMITS(Plan(response'.user)).token_limit
      /\ ~\E c \in chats : c.id = response'.chat_id /\ c.user_id = response'.user)
     => /\ response'.body = "Chat not found"
        /\ UNCHANGED <<world, accounts>>]_vars

\* C24: a streamed query whose search returns no context, or only scores
\* below the threshold 0.3, is answered with the fixed reply, with no source
\* and no context reported, tokens_used 0, no call of the LLM and the user's
\* tokens_used unchanged.
C24_NoAnswerBelowThreshold ==
  [][\A p \in Procs :
       (/\ req[p].op = "stream_query" /\ Returns(p)
        /\ \A i \in DOMAIN search.results : 10 * search.results[i].score < 12)
       => /\ response'.body = "no_answer"
          /\ response'.sources = <<>> /\ response'.emitted_sources = <<>>
          /\ response'.num_contexts = 0
          /\ response'.tokens_used = 0 /\ ~response'.generated
          /\ tokens_used' = tokens_used]_vars

\* C23: a failure of the blob delete does not stop a purge: the single-document
\* deletion goes on to remove the Document row and answers deleted, with no
\* chunk of the document left by the purge, and a chat or project deletion
\* still counts the document as purged.
C23_BlobFailureNotFatal ==
  [][\A p \in Procs :
       Steps(p)
       => LET r == req[p]
          IN /\ (r.op = "doc_delete" /\ r.pc = "blob")
                => /\ req'[p].pc = "row" /\ req'[p].doc = r.doc
                   /\ chunks' = chunks /\ documents' = documents
             /\ (r.op = "doc_delete" /\ r.pc = "row")
                => /\ Returns(p) /\ response'.code = 200 /\ response'.body = "deleted"
                   /\ ~\E d \in documents' : d.id = r.doc.id
             /\ (r.op \in {"chat_delete", "project_delete"} /\ r.pc = "sd_blob" /\ r.success)
                => /\ r.doc.id \in req'[p].purged
                   /\ req'[p].deleted_count = r.deleted_count + 1]_vars

\* the single-document deletion of the only document answered deleted although
\* the blob delete failed: the row and the chunks are gone, the blob is left
C23_Witness ==
  /\ response.op = "doc_delete" /\ response.body = "deleted" /\ Quiescent
  /\ nextDocId = 2 /\ faults = 1
  /\ documents = {} /\ chunks = {} /\ blobs # {}

\* C25: the passages of a search come in descending order of score, and
\* passages of equal score in ascending order of chunk_index.
C25_OrderedByScoreThenIndex ==
  search.pc = "done"
  => \A i, j \in DOMAIN search.results :
       i < j => /\ search.results[i].score >= search.results[j].score
                /\ search.results[i].score = search.results[j].score
                   => search.results[i].chunk_index <= search.results[j].chunk_index

\* C26: is_allowed(key, max_attempts, window) answers False exactly when at
\* least max_attempts attempts of the key were recorded within the last window
\* minutes and not cleared since, and a call on one key leaves what is stored
\* for every other key as it was.
C26_BlocksIffThreshold ==
  [][/\ AnswersAtOnce("is_allowed")
        => LET key == response'.key
               inside == {i \in DOMAIN recorded[key] :
                            recorded[key][i] > now - response'.window_minutes}
           IN ~response'.allowed <=> Cardinality(inside) >= response'.max_attempts
     /\ \A k \in Keys :
          (budget' = budget - 1 /\ response'.op \in {"is_allowed", "record_attempt", "clear"}
           /\ k # response'.key)
          => /\ (k \in DOMAIN attempts') = (k \in DOMAIN attempts)
             /\ Get(attempts', k) = Get(attempts, k)]_vars

\* C27: in every state, concurrent create requests included, a user has no
\* more projects and no more chats than the plan allows.
C27_WithinPlanLimits ==
  \A u \in Creators :
    LET limits == PLAN_LIMITS(Plan(u))
    IN /\ limits.projects # 0 => Cardinality({pr \in projects : pr.user_id = u}) <= limits.projects
       /\ limits.chats # 0 => Cardinality({c \in chats : c.user_id = u}) <= limits.chats

\* C28: refresh tokens are single-use: no refresh token is redeemed by two
\* successful refreshes, whether the second comes later or concurrently.
C28_SingleUse ==
  \A t \in refresh_tokens : t.redeemed <= 1

C30_PendingBecomesReady ==
  \A id \in 1..MaxDocId :
    (\E d \in documents : d.id = id /\ d.status = "pending")
    ~> (\A d \in documents : d.id = id => d.status \in {"ready", "deleting"})

\* C31: a Document's status only moves forward: a Document in status deleting
\* stays deleting until its row is removed, a ready Document never becomes
\* pending again, and a row that was removed is not created again by a
\* status update (only an upload's insert_one creates a row).
C31_StatusMovesForward ==
  [][\A id \in 1..MaxDocId :
       /\ \A d \in documents, e \in documents' :
            (d.id = id /\ e.id = id)
            => /\ d.status = "deleting" => e.status = "deleting"
               /\ d.status = "ready" => e.status # "pending"
       /\ (/\ ~\E d \in documents : d.id = id
           /\ ~\E p \in Procs : req[p].pc = "insert" /\ req[p].doc.id = id)
          => ~\E e \in documents' : e.id = id]_vars

\* C32: a single-document deletion that names a scope the document is not
\* linked to answers 404 "Document not linked to this scope" at its unlink
\* step, and from its first step to that answer no link, Document row, chunk,
\* blob or counter is modified, whether or not the document has links left.
C32_UnlinkedScopeChangesNothing ==
  [][\A p \in Procs :
       /\ (req'[p].op = "doc_delete" /\ req[p].pc = "idle" /\ req'[p].pc # "idle")
          => UNCHANGED <<documents, document_scopes, chunks, blobs, active_documents_count>>
       /\ (/\ req[p].op = "doc_delete" /\ req[p].pc = "unlink" /\ Steps(p)
           /\ req[p].scope_type # ""
           /\ ~BagIn(Link(req[p].doc.id, req[p].scope_type, req[p].scope_id),
                     document_scopes))
          => /\ response'.code = 404
             /\ response'.body = "Document not linked to this scope"
             /\ Returns(p)
             /\ UNCHANGED <<documents, document_scopes, chunks, blobs,
                            active_documents_count, ingest_events>>]_vars

\* a Document without any link is left (an earlier purge failed) and a deletion
\* naming a scope was answered 404
C32_Witness ==
  /\ response.op = "doc_delete" /\ response.code = 404
  /\ response.body = "Document not linked to this scope"
  /\ Quiescent
  /\ \E d \in documents : d.id = response.document_id /\ LinksOfDoc(d.id) = {}

\* C33: when an upload returns an error response, the Document it built is
\* not in the collection, has no ScopeLink and no ingestion event, the
\* returning step changes no link, row, counter or event, and the blob it
\* wrote is not the blob of an existing Document with other content.
C33_FailedUploadChangesNothing ==
  [][\A p \in Procs :
       (req[p].op \in UploadOps /\ Returns(p) /\ response'.code >= 400)
       => /\ UNCHANGED <<documents, document_scopes, active_documents_count,
                         ingest_events>>
          /\ req[p].pc \in {"insert", "refetch", "link"}
             => /\ \A d \in documents' : d.id # req[p].doc.id
                /\ LinksOfDoc(req[p].doc.id) = {}
                /\ \A e \in ingest_events' : e.document_id # req[p].doc.id
                /\ \A d \in documents', b \in blobs' :
                     (d.s3_key = req[p].doc.s3_key /\ b.key = d.s3_key)
                     => b.content = d.checksum]_vars

\* C34: account deletion removes only orphaned documents: while an account is
\* deleted, a Document that is also linked to a scope of another user keeps
\* its row and all of its chunks.
C34_SharedDocumentKeepsChunks ==
  [][\A p \in Procs :
       (req[p].op = "account_delete" /\ Steps(p))
       => \A d \in documents :
            (\E l \in LinksOfDoc(d.id) : l.scope_id = OtherChat.id)
            => /\ d \in documents'
               /\ ChunksOf(chunks', d.id) = ChunksOf(chunks, d.id)]_vars

\* C35: the active_documents_count of a user is never negative.
C35_CounterNotNegative ==
  \A u \in DOMAIN active_documents_count : active_documents_count[u] >= 0

\* the only Document ever created was purged by a chat or project deletion
\* whose decrement was refused (the upload had not counted it yet), and the
\* upload counted it afterwards
C35_Witness ==
  /\ Quiescent
  /\ nextDocId = 2 /\ documents = {}
  /\ active_documents_count["u1"] = 1
  /\ response.op = "api_upload" /\ response.code = 200

\* C36: no user ever has more than SessionLimit refresh tokens that are not
\* revoked.
C36_SessionCap ==
  \A u \in InitUsers : Cardinality(ActiveSessions(u)) <= SessionLimit

\* the documents a user has: those linked to one of the user's chats or
\* projects
DocumentsOfUser(u) ==
  {d \in documents :
     \E l \in LinksOfDoc(d.id) : OwnsScope(u, l.scope_type, l.scope_id)}

\* C37: a live run of reconcile_document_counts leaves every user's
\* active_documents_count equal to the number of documents the user has; a
\* dry run changes no counter.
C37_ReconcileSetsActualCount ==
  [][(budget' = budget - 1 /\ response'.op = "reconcile")
     => IF response'.body = "live"
        THEN \A u \in DOMAIN active_documents_count :
               active_documents_count'[u] = Cardinality(DocumentsOfUser(u))
        ELSE UNCHANGED active_documents_count]_vars


====
